---- MODULE Spec2Model ----
(***************************************************************************)
(* Model of the sidecar supervisor and its JSON-RPC channel                *)
(* (src-tauri/src/sidecar.rs) together with the command surface that uses  *)
(* it (src-tauri/src/lib.rs).                                              *)
(*                                                                         *)
(* Conventions                                                             *)
(*   Option<T>        <<>> is None, <<x>> is Some(x)                       *)
(*   String           a TLA+ string; format!/contains are \o and Contains  *)
(*   PathBuf          a sequence of components below the root; PathStr     *)
(*                    renders it the way Path's Display/Debug do           *)
(*   serde_json Value a tagged record, see JNull .. JObj                   *)
(*   Result<T, E>     [ok |-> TRUE, value |-> v] or [ok |-> FALSE, err |-> e] *)
(***************************************************************************)
EXTENDS Integers, Sequences, FiniteSets, TLC

(***************************************************************************)
(* Bounds of the model.                                                    *)
(***************************************************************************)
\* Number of concurrently running command tasks (the async runtime's tasks).
NumTasks == 2
\* Total number of commands the GUI issues in one run (caps every counter).
MaxCmds == 2

Tasks == 1..NumTasks

(***************************************************************************)
(* Option and Result helpers.                                              *)
(***************************************************************************)
None == <<>>
Range(f) == {f[i] : i \in DOMAIN f}
Some(x) == <<x>>
IsSome(o) == o # <<>>
Unwrap(o) == o[1]

Ok(v) == [ok |-> TRUE, value |-> v]
Err(e) == [ok |-> FALSE, err |-> e]

(***************************************************************************)
(* Strings: str::contains and the Debug rendering of a path.               *)
(***************************************************************************)
Contains(hay, needle) ==
    \E i \in 0..(Len(hay) - Len(needle)) : SubSeq(hay, i + 1, i + Len(needle)) = needle

RECURSIVE JoinWith(_, _)
JoinWith(strs, sep) ==
    IF strs = <<>> THEN ""
    ELSE IF Len(strs) = 1 THEN strs[1]
    ELSE strs[1] \o sep \o JoinWith(Tail(strs), sep)

Sep(plat) == IF plat = "windows" THEN "\\" ELSE "/"
Root(plat) == IF plat = "windows" THEN "C:\\" ELSE "/"

\* Display of a path given by its components below the root.
PathStr(plat, comps) == Root(plat) \o JoinWith(comps, Sep(plat))
\* format!("{:?}", path): the path in double quotes.
DebugPath(s) == "\"" \o s \o "\""
\* Path::parent of a path given by its components: None at the root.
Parent(comps) == IF comps = <<>> THEN None ELSE Some(SubSeq(comps, 1, Len(comps) - 1))
\* Path::ancestors: the path itself first, then each parent up to the root.
Ancestors(comps) == [k \in 1..(Len(comps) + 1) |-> SubSeq(comps, 1, Len(comps) + 1 - k)]

\* The first element of a sequence satisfying a membership test (Iterator::find).
RECURSIVE FindFirstIn(_, _)
FindFirstIn(seq, set) ==
    IF seq = <<>> THEN None
    ELSE IF seq[1] \in set THEN Some(seq[1])
    ELSE FindFirstIn(Tail(seq), set)

(***************************************************************************)
(* The world start() looks at.  An environment record e describes what the *)
(* operating system answers during one start():                            *)
(*   e.exe        Option: components of std::env::current_exe()            *)
(*   e.exeErr     the OS error text when current_exe() fails               *)
(*   e.files      the set of paths for which Path::exists is true          *)
(*   e.listing    read_dir: directory |-> entry names in enumeration order *)
(*                (a directory outside its domain cannot be read)          *)
(*   e.nodeInPath whether node --version runs successfully through PATH  *)
(*   e.home       Option: dirs::home_dir()                                 *)
(*   e.vars       environment variables (name |-> value) that are set      *)
(*   e.spawn      outcome of Command::spawn: "ok", "NotFound", "Other"     *)
(*   e.spawnErr   the OS error text of a failed spawn                      *)
(***************************************************************************)
Platforms == {"macos", "windows", "linux", "other"}

Exists(e, p) == p \in e.files
ReadDir(e, d) == IF d \in DOMAIN e.listing THEN Some(e.listing[d]) ELSE None
EnvVar(e, name) == IF name \in DOMAIN e.vars THEN Some(e.vars[name]) ELSE None
\* Path::join of a relative path onto a path given as a string.
StrJoin(plat, base, rel) == base \o Sep(plat) \o rel

\* sidecar.rs 220-223: the runtime's command name.
NodeCmd(plat) == IF plat = "windows" THEN "node.exe" ELSE "node"

\* sidecar.rs 236-271: the ordered standard installation paths.
CommonPaths(plat, e) ==
    CASE plat = "macos" ->
           <<"/usr/local/bin/node", "/opt/homebrew/bin/node", "/usr/bin/node">>
      [] plat = "windows" ->
           <<"C:\\Program Files\\nodejs\\node.exe",
             "C:\\Program Files (x86)\\nodejs\\node.exe">>
           \o (IF IsSome(EnvVar(e, "ProgramFiles"))
               THEN <<Unwrap(EnvVar(e, "ProgramFiles")) \o "\\nodejs\\node.exe">>
               ELSE <<>>)
           \o (IF IsSome(EnvVar(e, "ProgramFiles(x86)"))
               THEN <<Unwrap(EnvVar(e, "ProgramFiles(x86)")) \o "\\nodejs\\node.exe">>
               ELSE <<>>)
      [] plat = "linux" ->
           <<"/usr/local/bin/node", "/usr/bin/node", "/snap/bin/node">>
      [] OTHER ->
           <<"/usr/local/bin/node", "/usr/bin/node">>

\* The loop shared by the nvm and fnm blocks (sidecar.rs 285-294, 303-312,
\* 322-331, 339-348): the base directory must exist and be readable; the
\* first entry, in enumeration order, that holds the executable wins.
VersionDirHit(plat, e, base, rel) ==
    IF Exists(e, base) /\ IsSome(ReadDir(e, base))
    THEN LET entries == Unwrap(ReadDir(e, base))
             bins == [i \in 1..Len(entries) |->
                        StrJoin(plat, StrJoin(plat, base, entries[i]), rel)]
         IN  FindFirstIn(bins, e.files)
    ELSE None

\* The first Some of a sequence of options (the early returns, in order).
RECURSIVE FirstSome(_)
FirstSome(opts) ==
    IF opts = <<>> THEN None
    ELSE IF IsSome(opts[1]) THEN opts[1]
    ELSE FirstSome(Tail(opts))

ExistingPath(e, p) == IF Exists(e, p) THEN Some(p) ELSE None

\* sidecar.rs 280-377: the version-manager layouts under the home directory.
VersionManagers(plat, e) ==
    IF ~IsSome(e.home) THEN None
    ELSE LET home == Unwrap(e.home)
         IN  IF plat = "windows"
             THEN FirstSome(<<
                    IF IsSome(EnvVar(e, "APPDATA"))
                    THEN VersionDirHit(plat, e,
                           StrJoin(plat, Unwrap(EnvVar(e, "APPDATA")), "nvm"), "node.exe")
                    ELSE None,
                    IF IsSome(EnvVar(e, "LOCALAPPDATA"))
                    THEN VersionDirHit(plat, e,
                           StrJoin(plat, StrJoin(plat, Unwrap(EnvVar(e, "LOCALAPPDATA")), "fnm"),
                                   "node-versions"),
                           StrJoin(plat, "installation", "node.exe"))
                    ELSE None,
                    ExistingPath(e, StrJoin(plat, home, ".volta\\bin\\node.exe")) >>)
             ELSE FirstSome(<<
                    VersionDirHit(plat, e, StrJoin(plat, home, ".nvm/versions/node"), "bin/node"),
                    VersionDirHit(plat, e, StrJoin(plat, home, ".local/share/fnm/node-versions"),
                                  "installation/bin/node"),
                    ExistingPath(e, StrJoin(plat, home, ".volta/bin/node")),
                    ExistingPath(e, StrJoin(plat, home, ".asdf/shims/node")),
                    IF plat = "linux"
                    THEN ExistingPath(e, StrJoin(plat, home, ".linuxbrew/bin/node"))
                    ELSE None >>)

\* A locator that tries the version managers before the standard paths.
ManagersBeforeStandard(plat, e) ==
    IF e.nodeInPath THEN Some(NodeCmd(plat))
    ELSE LET hit == VersionManagers(plat, e)
         IN  IF IsSome(hit) THEN hit ELSE FindFirstIn(CommonPaths(plat, e), e.files)

\* sidecar.rs 216-380: SidecarManager::find_node_executable.
find_node_executable(plat, e) ==
    IF e.nodeInPath THEN Some(NodeCmd(plat))
    ELSE LET hit == FindFirstIn(CommonPaths(plat, e), e.files)
         IN  IF IsSome(hit) THEN hit ELSE VersionManagers(plat, e)

(***************************************************************************)
(* The script locator, the block of start() at sidecar.rs 397-453.         *)
(***************************************************************************)
ScriptRel == <<"sidecar", "dist", "index.cjs">>

\* The packaged candidates with the path beside the executable first.
AdjacentFirst(plat, exe_dir) ==
    <<PathStr(plat, exe_dir \o ScriptRel)>>
    \o (IF plat = "macos" /\ IsSome(Parent(exe_dir))
        THEN <<PathStr(plat, Unwrap(Parent(exe_dir)) \o <<"Resources">> \o ScriptRel)>>
        ELSE <<>>)

\* sidecar.rs 411-426: the packaged candidates, in order.
paths_to_check(plat, exe_dir) ==
    (IF plat = "macos" /\ IsSome(Parent(exe_dir))
     THEN <<PathStr(plat, Unwrap(Parent(exe_dir)) \o <<"Resources">> \o ScriptRel)>>
     ELSE <<>>)
    \o <<PathStr(plat, exe_dir \o ScriptRel)>>

\* sidecar.rs 437-439: the development candidates, nearest ancestor first.
AncestorCandidates(plat, exe_dir) ==
    [k \in 1..(Len(exe_dir) + 1) |-> PathStr(plat, Ancestors(exe_dir)[k] \o ScriptRel)]

ScriptNotFoundMsg(checked) ==
    "Could not find sidecar dist directory. Checked paths: "
    \o JoinWith([i \in 1..Len(checked) |-> DebugPath(checked[i])], ", ")
    \o ". Make sure the sidecar is built (cd sidecar && npm run build)"

\* sidecar.rs 397-453: the value of sidecar_script, or the reason recorded.
sidecar_script(plat, e) ==
    IF ~IsSome(e.exe)
    THEN Err("Failed to get executable path: " \o e.exeErr)
    ELSE IF ~IsSome(Parent(Unwrap(e.exe)))
    THEN Err("Failed to get parent directory")
    ELSE LET exe_dir == Unwrap(Parent(Unwrap(e.exe)))
             checked == paths_to_check(plat, exe_dir)
             prod_path == FindFirstIn(checked, e.files)
             workspace == FindFirstIn(AncestorCandidates(plat, exe_dir), e.files)
         IN  IF IsSome(prod_path) THEN Ok(Unwrap(prod_path))
             ELSE IF IsSome(workspace) THEN Ok(Unwrap(workspace))
             ELSE Err(ScriptNotFoundMsg(checked))

(***************************************************************************)
(* The reasons start() records (sidecar.rs 458-478 and 519-536).           *)
(***************************************************************************)
InstallHint(plat) ==
    CASE plat = "macos" -> "Install via Homebrew: brew install node"
      [] plat = "windows" ->
           "Download from https://nodejs.org or install via: winget install OpenJS.NodeJS.LTS"
      [] plat = "linux" ->
           "Install via your package manager (apt install nodejs, dnf install nodejs, pacman -S nodejs, or snap install node --classic)"
      [] OTHER -> "Download from https://nodejs.org"

NodeNotFoundMsg(plat) ==
    "[NODE_NOT_FOUND] Node.js (version 20 or higher) is required but was not found. "
    \o "Please install Node.js and ensure it's in your PATH. "
    \o InstallHint(plat) \o ". Download: https://nodejs.org"

SpawnErrorMsg(e, node_path, script) ==
    IF e.spawn = "NotFound"
    THEN "Node.js executable not found at " \o DebugPath(node_path)
         \o ". Please install Node.js and ensure it's in your PATH."
    ELSE "Failed to spawn sidecar from " \o DebugPath(script) \o ": " \o e.spawnErr

(***************************************************************************)
(* JSON.  A serde_json::Value is a tagged record; an object's fields are a *)
(* function from the field names present to their values.                  *)
(***************************************************************************)
JNull == [t |-> "null"]
JBool(b) == [t |-> "bool", b |-> b]
JNum(n) == [t |-> "num", n |-> n]
JStr(s) == [t |-> "str", s |-> s]
JObj(f) == [t |-> "obj", f |-> f]

EmptyFields == [x \in {} |-> JNull]
Has(o, k) == k \in DOMAIN o.f
\* A field that is absent or null: what Option<T> deserializes to None.
Absent(o, k) == ~Has(o, k) \/ o.f[k] = JNull

\* sidecar.rs 169-175 with 561-569: the serialized JsonRpcRequest.
JsonRpcRequest(id, method, params) ==
    JObj([k \in {"jsonrpc", "id", "method", "params"} |->
            CASE k = "jsonrpc" -> JStr("2.0")
              [] k = "id" -> JNum(id)
              [] k = "method" -> JStr(method)
              [] OTHER -> params])

(***************************************************************************)
(* What read_line hands to the parser: a record                            *)
(*   [kind |-> "json", v |-> value]   a line holding one JSON value        *)
(*   [kind |-> "text", s |-> string]  a line that is not JSON ("" at EOF)  *)
(*   [kind |-> "bytes"]               a line that is not valid UTF-8       *)
(***************************************************************************)
JsonLine(v) == [kind |-> "json", v |-> v]
TextLine(s) == [kind |-> "text", s |-> s]
BytesLine == [kind |-> "bytes"]

\* sidecar.rs 188-195: Deserialize for JsonRpcError; code: i32 and message:
\* String are required, data is optional, other fields are ignored.
ParseJsonRpcError(v) ==
    IF v.t # "obj" THEN Err("invalid type: expected struct JsonRpcError")
    ELSE IF ~Has(v, "code") THEN Err("missing field code")
    ELSE IF v.f["code"].t # "num" THEN Err("invalid type: expected i32")
    ELSE IF v.f["code"].n < -2147483647 - 1 \/ v.f["code"].n > 2147483647
    THEN Err("invalid value: expected i32")
    ELSE IF ~Has(v, "message") THEN Err("missing field message")
    ELSE IF v.f["message"].t # "str" THEN Err("invalid type: expected a string")
    ELSE Ok([code |-> v.f["code"].n,
             message |-> v.f["message"].s,
             data |-> IF Absent(v, "data") THEN None ELSE Some(v.f["data"])])

\* sidecar.rs 178-186: Deserialize for JsonRpcResponse; jsonrpc: String is
\* required, id, result and error are Options (absent or null is None).
ParseJsonRpcResponse(line) ==
    IF line.kind # "json"
    THEN Err(IF line.s = "" THEN "EOF while parsing a value" ELSE "expected value")
    ELSE LET v == line.v
         IN  IF v.t # "obj" THEN Err("invalid type: expected struct JsonRpcResponse")
             ELSE IF ~Has(v, "jsonrpc") THEN Err("missing field jsonrpc")
             ELSE IF v.f["jsonrpc"].t # "str" THEN Err("invalid type: expected a string")
             ELSE IF ~Absent(v, "id") /\ v.f["id"].t # "num" THEN Err("invalid type: expected u64")
             ELSE IF ~Absent(v, "id") /\ v.f["id"].n < 0 THEN Err("invalid value: expected u64")
             ELSE IF ~Absent(v, "error") /\ ~ParseJsonRpcError(v.f["error"]).ok
             THEN Err(ParseJsonRpcError(v.f["error"]).err)
             ELSE Ok([jsonrpc |-> v.f["jsonrpc"].s,
                      id |-> IF Absent(v, "id") THEN None ELSE Some(v.f["id"].n),
                      result |-> IF Absent(v, "result") THEN None ELSE Some(v.f["result"]),
                      error |-> IF Absent(v, "error") THEN None
                                ELSE Some(ParseJsonRpcError(v.f["error"]).value)])

\* An outcome that takes a response without result for a failure.
MissingResultFails(response) ==
    IF IsSome(response.error) THEN Err(Unwrap(response.error).message)
    ELSE IF IsSome(response.result) THEN Ok(Unwrap(response.result))
    ELSE Err("missing result")

\* An outcome that looks at the result before the error.
ResultBeforeError(response) ==
    IF IsSome(response.result) THEN Ok(Unwrap(response.result))
    ELSE IF IsSome(response.error) THEN Err(Unwrap(response.error).message)
    ELSE Ok(JNull)

\* sidecar.rs 591-598: the call's outcome for a parsed response.
ResponseOutcome(response) ==
    IF IsSome(response.error) THEN Err(Unwrap(response.error).message)
    ELSE Ok(IF IsSome(response.result) THEN Unwrap(response.result) ELSE JNull)

\* sidecar.rs 576, 577, 585 and 588: the wording each failing step of call()
\* puts before the cause.
CallErrorWording ==
    [write |-> "Failed to write to sidecar: ",
     flush |-> "Failed to flush: ",
     read |-> "Failed to read from sidecar: ",
     parse |-> "Failed to parse response: "]

\* An outcome that takes the end of the worker's output for a failed read.
EndOfOutputIsReadFailure(line) ==
    IF line.kind = "bytes"
    THEN Err("Failed to read from sidecar: stream did not contain valid UTF-8")
    ELSE IF line.kind = "text" /\ line.s = ""
    THEN Err("Failed to read from sidecar: unexpected end of file")
    ELSE LET parsed == ParseJsonRpcResponse(line)
         IN  IF ~parsed.ok THEN Err("Failed to parse response: " \o parsed.err)
             ELSE ResponseOutcome(parsed.value)

\* sidecar.rs 583-598: the call's outcome for the line read_line returned.
LineOutcome(line) ==
    IF line.kind = "bytes"
    THEN Err("Failed to read from sidecar: stream did not contain valid UTF-8")
    ELSE LET parsed == ParseJsonRpcResponse(line)
         IN  IF ~parsed.ok THEN Err("Failed to parse response: " \o parsed.err)
             ELSE ResponseOutcome(parsed.value)

\* A failure text that leaves the recorded reason out.
MarkerOnly(start_err) == "Sidecar not started"

\* sidecar.rs 550-556: the failure of a call made while no child is held.
NotStartedError(start_err) ==
    IF IsSome(start_err) THEN "Sidecar not started" \o ": " \o Unwrap(start_err)
    ELSE "Sidecar not started"

\* A classification that looks for the runtime's name, not for the tag.
LooseErrorCode(error) ==
    IF ~IsSome(error) THEN None
    ELSE IF Contains(Unwrap(error), "Node.js") THEN Some("NODE_NOT_FOUND")
    ELSE IF Contains(Unwrap(error), "Could not find sidecar") THEN Some("SIDECAR_SCRIPT_NOT_FOUND")
    ELSE None

\* lib.rs 111-119: the error code the health query derives from the text.
error_code(error) ==
    IF ~IsSome(error) THEN None
    ELSE IF Contains(Unwrap(error), "[NODE_NOT_FOUND]") THEN Some("NODE_NOT_FOUND")
    ELSE IF Contains(Unwrap(error), "Could not find sidecar") THEN Some("SIDECAR_SCRIPT_NOT_FOUND")
    ELSE None

\* lib.rs 107-125: the health query's reply.
HealthReport(child_, start_err) ==
    [running |-> IsSome(child_), error |-> start_err, errorCode |-> error_code(start_err)]

(***************************************************************************)
(* SidecarManager::start as a function of the manager's fields and of the  *)
(* environment e it runs in (sidecar.rs 384-541).  The result carries the  *)
(* new fields, the value returned, whether discovery ran and whether a     *)
(* process was spawned.                                                    *)
(***************************************************************************)
\* start() without its early return.
NeverAlreadyRunning(child_) == FALSE

\* sidecar.rs 385-387: the early return while a handle is held.
AlreadyRunning(child_) == IsSome(child_)

\* An attempt that keeps the error of the one before.
KeptError(start_err) == start_err

\* sidecar.rs 390: the error remembered once a new attempt begins.
ClearedError(start_err) == None

\* A failed start() that returns its reason without recording it.
FailedUnrecorded(msg, looked) ==
    [child |-> None, start_error |-> None, result |-> Err(msg),
     discovered |-> TRUE, spawned |-> FALSE, lookup |-> looked]

\* A failed start(): no handle, the reason recorded and returned.  lookup
\* tells whether find_node_executable was called on the way.
StartFailed(msg, looked) ==
    [child |-> None, start_error |-> Some(msg), result |-> Err(msg),
     discovered |-> TRUE, spawned |-> FALSE, lookup |-> looked]

\* A discovery that looks for the runtime before it looks for the script.
RuntimeBeforeScript(plat, start_err, e, pid) ==
    LET script == sidecar_script(plat, e)
        node_path == find_node_executable(plat, e)
    IN  IF ~IsSome(node_path) THEN StartFailed(NodeNotFoundMsg(plat), TRUE)
        ELSE IF ~script.ok THEN StartFailed(script.err, TRUE)
        ELSE IF e.spawn # "ok"
        THEN StartFailed(SpawnErrorMsg(e, Unwrap(node_path), script.value), TRUE)
        ELSE [child |-> Some(pid), start_error |-> ClearedError(start_err),
              result |-> Ok("unit"), discovered |-> TRUE, spawned |-> TRUE, lookup |-> TRUE]

\* sidecar.rs 389-541: discovery and spawn.  The script block (397-453)
\* returns on failure before find_node_executable is called (458).
Discover(plat, start_err, e, pid) ==
    LET script == sidecar_script(plat, e)
        node_path == find_node_executable(plat, e)
    IN  IF ~script.ok THEN StartFailed(script.err, FALSE)
        ELSE IF ~IsSome(node_path) THEN StartFailed(NodeNotFoundMsg(plat), TRUE)
        ELSE IF e.spawn # "ok"
        THEN StartFailed(SpawnErrorMsg(e, Unwrap(node_path), script.value), TRUE)
        ELSE [child |-> Some(pid), start_error |-> ClearedError(start_err),
              result |-> Ok("unit"), discovered |-> TRUE, spawned |-> TRUE, lookup |-> TRUE]

\* A start() that answers with the failure it remembers instead of trying
\* again.
StartRemembersFailure(plat, child_, start_err, e, pid) ==
    IF AlreadyRunning(child_) \/ IsSome(start_err)
    THEN [child |-> child_, start_error |-> start_err,
          result |-> IF IsSome(start_err) THEN Err(Unwrap(start_err)) ELSE Ok("unit"),
          discovered |-> FALSE, spawned |-> FALSE, lookup |-> FALSE]
    ELSE Discover(plat, start_err, e, pid)

start(plat, child_, start_err, e, pid) ==
    IF AlreadyRunning(child_)
    THEN [child |-> child_, start_error |-> start_err, result |-> Ok("unit"),
          discovered |-> FALSE, spawned |-> FALSE, lookup |-> FALSE]
    ELSE Discover(plat, start_err, e, pid)

(***************************************************************************)
(* The environments the supervisor is run in.                              *)
(***************************************************************************)
NoListing == [d \in {} |-> <<>>]
NoVars == [n \in {} |-> ""]

\* Where the application's executable lives on each platform.
ExeFile(plat) ==
    CASE plat = "macos" -> <<"Applications", "Studio.app", "Contents", "MacOS", "studio">>
      [] plat = "windows" -> <<"Program Files", "Studio", "studio.exe">>
      [] OTHER -> <<"w", "src-tauri", "target", "debug", "studio">>

ExeDir(plat) == Unwrap(Parent(ExeFile(plat)))
AdjacentScript(plat) == PathStr(plat, ExeDir(plat) \o ScriptRel)

BaseEnv(plat) ==
    [exe |-> Some(ExeFile(plat)), exeErr |-> "", files |-> {}, listing |-> NoListing,
     nodeInPath |-> FALSE, home |-> None, vars |-> NoVars, spawn |-> "ok", spawnErr |-> ""]

\* Everything in place: the script beside the executable, node on PATH.
GoodEnv(plat) ==
    [BaseEnv(plat) EXCEPT !.files = {AdjacentScript(plat)}, !.nodeInPath = TRUE]

\* The environments a start() of the supervisor may meet: the good one and
\* one for each way discovery or spawn fails.
StartEnvs(plat) ==
    { GoodEnv(plat),
      [GoodEnv(plat) EXCEPT !.files = {}],
      [GoodEnv(plat) EXCEPT !.nodeInPath = FALSE],
      [GoodEnv(plat) EXCEPT !.files = {}, !.nodeInPath = FALSE],
      [GoodEnv(plat) EXCEPT !.nodeInPath = FALSE,
                            !.files = {AdjacentScript(plat), CommonPaths(plat, BaseEnv(plat))[2]},
                            !.spawn = "NotFound",
                            !.spawnErr = "No such file or directory (os error 2)"],
      [GoodEnv(plat) EXCEPT !.spawn = "Other", !.spawnErr = "Permission denied (os error 13)"],
      [GoodEnv(plat) EXCEPT !.exe = None, !.exeErr = "No such file or directory (os error 2)"] }

\* The script where the packaged layout of macOS keeps it.
ResourcesScript(plat) ==
    PathStr(plat, Unwrap(Parent(ExeDir(plat))) \o <<"Resources">> \o ScriptRel)
\* The script in the workspace root, two levels above the executable.
WorkspaceScript(plat) ==
    PathStr(plat, SubSeq(ExeDir(plat), 1, Len(ExeDir(plat)) - 2) \o ScriptRel)

HomeDir(plat) == IF plat = "windows" THEN "C:\\Users\\u" ELSE "/home/u"
NvmBase(plat) ==
    IF plat = "windows" THEN "C:\\Users\\u\\AppData\\Roaming\\nvm"
    ELSE "/home/u/.nvm/versions/node"
NvmNode(plat, version) ==
    StrJoin(plat, StrJoin(plat, NvmBase(plat), version),
            IF plat = "windows" THEN "node.exe" ELSE "bin/node")

\* Where the script is: nowhere, beside the executable, in the resource
\* directory, or in the workspace root.
ScriptLayouts(plat) ==
    { {}, {AdjacentScript(plat)}, {ResourcesScript(plat)}, {WorkspaceScript(plat)} }

\* Where the runtime is: nowhere, on PATH, at the second standard path, or
\* in the second of two nvm version directories.
NodeLayouts(plat) ==
    { [BaseEnv(plat) EXCEPT !.nodeInPath = FALSE],
      [BaseEnv(plat) EXCEPT !.nodeInPath = TRUE],
      [BaseEnv(plat) EXCEPT !.files = {CommonPaths(plat, BaseEnv(plat))[2]}],
      [BaseEnv(plat) EXCEPT
         !.home = Some(HomeDir(plat)),
         !.vars = [n \in {"APPDATA"} |-> "C:\\Users\\u\\AppData\\Roaming"],
         !.files = {NvmBase(plat), NvmNode(plat, "v20")},
         !.listing = [d \in {NvmBase(plat)} |-> <<"v18", "v20">>]] }

\* The environments of the one-command-at-a-time specification: every
\* layout of script and runtime with a spawn that succeeds, the two ways a
\* spawn fails, and an executable path that cannot be read.
SoloEnvs(plat) ==
    { [n EXCEPT !.files = n.files \cup sc] :
        n \in NodeLayouts(plat), sc \in ScriptLayouts(plat) }
    \cup (StartEnvs(plat) \ {GoodEnv(plat)})

\* The script in the directory above the executable's.
ParentScript(plat) == PathStr(plat, Unwrap(Parent(ExeDir(plat))) \o ScriptRel)

\* Every combination of the four places a script may be at.
ScriptSets(plat) ==
    SUBSET {ResourcesScript(plat), AdjacentScript(plat), ParentScript(plat),
            WorkspaceScript(plat)}

FnmBase(plat) ==
    IF plat = "windows" THEN "C:\\Users\\u\\AppData\\Local\\fnm\\node-versions"
    ELSE "/home/u/.local/share/fnm/node-versions"
FnmNode(plat, version) ==
    StrJoin(plat, StrJoin(plat, FnmBase(plat), version),
            IF plat = "windows" THEN "installation\\node.exe" ELSE "installation/bin/node")
VoltaNode(plat) ==
    StrJoin(plat, HomeDir(plat), IF plat = "windows" THEN ".volta\\bin\\node.exe"
                                 ELSE ".volta/bin/node")

\* What the version managers have left on the machine: the home directory,
\* the variables naming the application-data directories, the files and the
\* directories that can be listed.
ManagerLayout(plat, home, files, listing) ==
    [BaseEnv(plat) EXCEPT
       !.home = home,
       !.vars = [n \in {"APPDATA", "LOCALAPPDATA"} |->
                   IF n = "APPDATA" THEN "C:\\Users\\u\\AppData\\Roaming"
                   ELSE "C:\\Users\\u\\AppData\\Local"],
       !.files = files,
       !.listing = listing]

\* No manager; nvm with the runtime in the second, in both or in neither of
\* two version directories; an nvm directory that cannot be listed; nvm
\* beside fnm; fnm beside volta; volta alone; nvm with no home directory.
ManagerLayouts(plat) ==
    LET nvm == [d \in {NvmBase(plat)} |-> <<"v18", "v20">>]
        fnm == [d \in {FnmBase(plat)} |-> <<"v22">>]
        both == [d \in {NvmBase(plat), FnmBase(plat)} |->
                   IF d = NvmBase(plat) THEN <<"v18", "v20">> ELSE <<"v22">>]
        home == Some(HomeDir(plat))
    IN  { BaseEnv(plat),
          ManagerLayout(plat, home, {NvmBase(plat), NvmNode(plat, "v20")}, nvm),
          ManagerLayout(plat, home,
                        {NvmBase(plat), NvmNode(plat, "v18"), NvmNode(plat, "v20")}, nvm),
          ManagerLayout(plat, home, {NvmBase(plat)}, nvm),
          ManagerLayout(plat, home, {NvmBase(plat), NvmNode(plat, "v20")}, NoListing),
          ManagerLayout(plat, home,
                        {NvmBase(plat), NvmNode(plat, "v20"), FnmBase(plat),
                         FnmNode(plat, "v22")}, both),
          ManagerLayout(plat, home, {FnmBase(plat), FnmNode(plat, "v22"), VoltaNode(plat)},
                        fnm),
          ManagerLayout(plat, home, {VoltaNode(plat)}, NoListing),
          ManagerLayout(plat, None, {NvmBase(plat), NvmNode(plat, "v20")}, nvm) }

\* Every combination of the bare command, the first two standard paths and
\* a manager layout.
RuntimeLayouts(plat) ==
    { [m EXCEPT !.nodeInPath = inPath, !.files = m.files \cup std] :
        m \in ManagerLayouts(plat), inPath \in BOOLEAN,
        std \in SUBSET {CommonPaths(plat, BaseEnv(plat))[1], CommonPaths(plat, BaseEnv(plat))[2]} }

\* The environments the two locators are explored in: every runtime layout
\* with the script beside the executable (the spawn succeeding, or failing
\* because the runtime's file is gone), every manager layout with no script
\* at all, and every script layout with the runtime on PATH (the spawn
\* succeeding or refused).
LocateEnvs(plat) ==
    { [n EXCEPT !.files = n.files \cup {AdjacentScript(plat)}] : n \in RuntimeLayouts(plat) }
    \cup { [n EXCEPT !.files = n.files \cup {AdjacentScript(plat)},
                     !.spawn = "NotFound",
                     !.spawnErr = "No such file or directory (os error 2)"] :
             n \in RuntimeLayouts(plat) }
    \cup ManagerLayouts(plat)
    \cup { [GoodEnv(plat) EXCEPT !.files = sc] : sc \in ScriptSets(plat) }
    \cup { [GoodEnv(plat) EXCEPT !.files = sc, !.spawn = "Other",
                                 !.spawnErr = "Permission denied (os error 13)"] :
             sc \in ScriptSets(plat) }

\* The platforms the supervisor's state machine is explored on.
RunPlatforms == {"macos", "linux"}

(***************************************************************************)
(* The worker's replies.                                                   *)
(***************************************************************************)
Object(pairs) ==
    JObj([k \in {pairs[i][1] : i \in 1..Len(pairs)} |->
            pairs[CHOOSE i \in 1..Len(pairs) : pairs[i][1] = k][2]])

OkTrue == Object(<< <<"ok", JBool(TRUE)>> >>)
Boom == Object(<< <<"code", JNum(-1)>>, <<"message", JStr("boom")>> >>)
V2 == <<"jsonrpc", JStr("2.0")>>

\* The request's id as the worker echoes it.
ReqId(req) == req.f["id"]

\* The stub of the specification's scenarios: one line per request line,
\* echoing the request's id with a result.
EchoReply(req) == JsonLine(Object(<< V2, <<"id", ReqId(req)>>, <<"result", OkTrue>> >>))

\* Lines a worker may answer a request with.
Replies(req) ==
    { EchoReply(req),
      JsonLine(Object(<< V2, <<"id", ReqId(req)>> >>)),
      JsonLine(Object(<< V2, <<"id", ReqId(req)>>, <<"result", JNull>> >>)),
      JsonLine(Object(<< V2, <<"id", ReqId(req)>>, <<"error", Boom>> >>)),
      JsonLine(Object(<< V2, <<"id", ReqId(req)>>, <<"result", OkTrue>>, <<"error", Boom>> >>)),
      JsonLine(Object(<< V2, <<"id", ReqId(req)>>, <<"result", OkTrue>>, <<"error", JNull>> >>)),
      JsonLine(Object(<< V2, <<"result", OkTrue>> >>)),
      JsonLine(Object(<< V2, <<"id", JNum(ReqId(req).n + 1)>>, <<"result", OkTrue>> >>)),
      JsonLine(Object(<< <<"id", ReqId(req)>>, <<"result", OkTrue>> >>)),
      JsonLine(Object(<< V2, <<"id", ReqId(req)>>,
                         <<"error", Object(<< <<"code", JNum(-1)>> >>)>> >>)),
      TextLine("sidecar ready"),
      BytesLine }

\* The lines of a worker that keeps to the protocol.
ProtocolReplies(req) ==
    { EchoReply(req),
      JsonLine(Object(<< V2, <<"id", ReqId(req)>> >>)),
      JsonLine(Object(<< V2, <<"id", ReqId(req)>>, <<"error", Boom>> >>)) }

EchoReplies(req) == {EchoReply(req)}

\* The line the worker answers with when what it read is not one request.
GarbledReply ==
    JsonLine(Object(<< V2, <<"id", JNull>>,
                       <<"error", Object(<< <<"code", JNum(-32700)>>,
                                            <<"message", JStr("Parse error")>> >>)>> >>))

\* serde_json::json!({}), the params of lib.rs 98.
EmptyParams == JObj(EmptyFields)

(***************************************************************************)
(* Text as the key provisioner handles it: str::trim, the comparison of an *)
(* environment flag, and the STANDARD base64 engine.  A key is a sequence  *)
(* of bytes (0..255); an encoded key is a string.                          *)
(***************************************************************************)
CharAt(s, i) == SubSeq(s, i, i)

\* The characters str::trim strips that occur in the stored texts.
Whitespace == {" ", "\n", "\t", "\r"}

\* str::trim_start and str::trim.
RECURSIVE TrimStart(_)
TrimStart(s) ==
    IF Len(s) > 0 /\ CharAt(s, 1) \in Whitespace
    THEN TrimStart(SubSeq(s, 2, Len(s)))
    ELSE s

RECURSIVE TrimEnd(_)
TrimEnd(s) ==
    IF Len(s) > 0 /\ CharAt(s, Len(s)) \in Whitespace
    THEN TrimEnd(SubSeq(s, 1, Len(s) - 1))
    ELSE s

Trim(s) == TrimEnd(TrimStart(s))

Upper == "ABCDEFGHIJKLMNOPQRSTUVWXYZ"
Lower == "abcdefghijklmnopqrstuvwxyz"

\* u8::to_ascii_lowercase on one character.
LowerOf == [c \in {CharAt(Upper, i) : i \in 1..26} |->
              CharAt(Lower, CHOOSE i \in 1..26 : CharAt(Upper, i) = c)]
LowerChar(c) == IF c \in DOMAIN LowerOf THEN LowerOf[c] ELSE c

RECURSIVE ToAsciiLowercase(_)
ToAsciiLowercase(s) ==
    IF s = "" THEN ""
    ELSE LowerChar(CharAt(s, 1)) \o ToAsciiLowercase(SubSeq(s, 2, Len(s)))

\* str::eq_ignore_ascii_case.
eq_ignore_ascii_case(a, b) == ToAsciiLowercase(a) = ToAsciiLowercase(b)

\* The alphabet of base64::engine::general_purpose::STANDARD.
B64Alphabet == Upper \o Lower \o "0123456789+/"

\* The alphabet as a table from value to character and back.
B64Chars == [n \in 0..63 |-> CharAt(B64Alphabet, n + 1)]
B64Values == [c \in {B64Chars[n] : n \in 0..63} |->
                CHOOSE n \in 0..63 : B64Chars[n] = c]

\* The value of a base64 character, -1 when it is not in the alphabet.
B64Value(c) == IF c \in DOMAIN B64Values THEN B64Values[c] ELSE -1

\* STANDARD.encode: three bytes to four characters, the last group padded.
RECURSIVE B64Encode(_)
B64Encode(bytes) ==
    IF Len(bytes) = 0 THEN ""
    ELSE IF Len(bytes) = 1
    THEN B64Chars[bytes[1] \div 4] \o B64Chars[(bytes[1] % 4) * 16] \o "=="
    ELSE IF Len(bytes) = 2
    THEN B64Chars[bytes[1] \div 4]
         \o B64Chars[(bytes[1] % 4) * 16 + bytes[2] \div 16]
         \o B64Chars[(bytes[2] % 16) * 4] \o "="
    ELSE B64Chars[bytes[1] \div 4]
         \o B64Chars[(bytes[1] % 4) * 16 + bytes[2] \div 16]
         \o B64Chars[(bytes[2] % 16) * 4 + bytes[3] \div 64]
         \o B64Chars[bytes[3] % 64]
         \o B64Encode(SubSeq(bytes, 4, Len(bytes)))

\* One group of four characters decoded; last tells whether padding may
\* appear in it.  The result is Err for a character outside the alphabet,
\* misplaced padding or non-zero trailing bits.
B64DecodeValues(v, pad3, pad4, last) ==
    IF v[1] < 0 \/ v[2] < 0 THEN Err("Invalid byte")
    ELSE IF pad3 /\ pad4 /\ last
    THEN IF v[2] % 16 = 0 THEN Ok(<<v[1] * 4 + v[2] \div 16>>)
         ELSE Err("Invalid last symbol")
    ELSE IF v[3] < 0 THEN Err(IF pad3 THEN "Invalid padding" ELSE "Invalid byte")
    ELSE IF pad4 /\ last
    THEN IF v[3] % 4 = 0
         THEN Ok(<<v[1] * 4 + v[2] \div 16, (v[2] % 16) * 16 + v[3] \div 4>>)
         ELSE Err("Invalid last symbol")
    ELSE IF v[4] < 0 THEN Err(IF pad4 THEN "Invalid padding" ELSE "Invalid byte")
    ELSE Ok(<<v[1] * 4 + v[2] \div 16, (v[2] % 16) * 16 + v[3] \div 4,
              (v[3] % 4) * 64 + v[4]>>)

B64DecodeGroup(g, last) ==
    B64DecodeValues(<<B64Value(CharAt(g, 1)), B64Value(CharAt(g, 2)),
                      B64Value(CharAt(g, 3)), B64Value(CharAt(g, 4))>>,
                    CharAt(g, 3) = "=", CharAt(g, 4) = "=", last)

\* STANDARD.decode from the i-th character on, decoded holding the bytes of
\* the groups before it.
RECURSIVE B64DecodeFrom(_, _, _)
B64DecodeFrom(s, i, decoded) ==
    IF i > Len(s) THEN Ok(decoded)
    ELSE IF i + 3 > Len(s) THEN Err("Invalid padding")
    ELSE LET g == B64DecodeGroup(SubSeq(s, i, i + 3), i + 3 = Len(s))
         IN  IF g.ok THEN B64DecodeFrom(s, i + 4, decoded \o g.value) ELSE g

\* STANDARD.decode: padding is required, so the length is a multiple of 4.
B64Decode(s) == B64DecodeFrom(s, 1, <<>>)

(***************************************************************************)
(* The key provisioner (sidecar.rs 20-166).  The secret-store entry and    *)
(* the key file are Option<text>.  A record w describes what one run       *)
(* meets:                                                                   *)
(*   w.keyring   "ok", "no_service" (Entry::new fails), "unreadable"       *)
(*               (get_password fails other than with NoEntry), "set_fails" *)
(*               (set_password fails), "readonly" (delete and set fail)    *)
(*   w.fs        "ok", "unreadable" (read_to_string fails), "dir_fails"    *)
(*               (create_dir_all fails), "open_fails", "write_fails"       *)
(*               (write_all fails after the file was truncated)            *)
(*   w.rng       whether getrandom succeeds                                *)
(*   w.key       the 32 bytes getrandom yields                             *)
(*   w.data_dir  app_data_dir(), None when it fails                        *)
(* and a record cfg the build: cfg.debug is cfg!(debug_assertions),        *)
(* cfg.vars the process environment.  Each function returns its result,    *)
(* the store after it and the operations it performed on the store.        *)
(***************************************************************************)
\* sidecar.rs 33-35, 80-82: STANDARD.encode of the generated key.
EncodeKey(key) == B64Encode(key)

\* An entry that is never taken for a key.
NeverReusable(existing) == FALSE

\* sidecar.rs 29: the guard of the arm that reuses the stored entry.
ReusableEntry(existing) == Trim(existing) # ""

\* A secret-store path that takes a failed read for a missing entry.
RotateOnReadError(entry, w) ==
    IF w.keyring = "no_service"
    THEN [result |-> Err("Failed to initialize keyring: No secret service"),
          entry |-> entry, ops |-> <<>>]
    ELSE IF w.keyring # "unreadable" /\ IsSome(entry) /\ ReusableEntry(Unwrap(entry))
    THEN [result |-> Ok(Unwrap(entry)), entry |-> entry, ops |-> <<"get_password">>]
    ELSE [result |-> Ok(EncodeKey(w.key)), entry |-> Some(EncodeKey(w.key)),
          ops |-> <<"get_password", "delete_credential", "set_password">>]

\* sidecar.rs 20-46: get_or_create_cache_key_b64.
get_or_create_cache_key_b64(entry, w) ==
    IF w.keyring = "no_service"
    THEN [result |-> Err("Failed to initialize keyring: No secret service"),
          entry |-> entry, ops |-> <<>>]
    ELSE IF w.keyring = "unreadable"
    THEN [result |-> Err("Failed to read keyring entry: Platform secure storage failure"),
          entry |-> entry, ops |-> <<"get_password">>]
    ELSE IF IsSome(entry) /\ ReusableEntry(Unwrap(entry))
    THEN [result |-> Ok(Unwrap(entry)), entry |-> entry, ops |-> <<"get_password">>]
    ELSE LET deleted == IF w.keyring = "readonly" THEN entry ELSE None
         IN  IF ~w.rng
             THEN [result |-> Err("Failed to generate cache key: getrandom: unavailable"),
                   entry |-> deleted, ops |-> <<"get_password", "delete_credential">>]
             ELSE IF w.keyring \in {"set_fails", "readonly"}
             THEN [result |-> Err("Failed to write keyring entry: Platform secure storage failure"),
                   entry |-> deleted,
                   ops |-> <<"get_password", "delete_credential", "set_password">>]
             ELSE [result |-> Ok(EncodeKey(w.key)), entry |-> Some(EncodeKey(w.key)),
                   ops |-> <<"get_password", "delete_credential", "set_password">>]

\* sidecar.rs 53-63: is_valid_cache_key_b64.
is_valid_cache_key_b64(value) ==
    LET trimmed == Trim(value)
    IN  IF trimmed = "" THEN FALSE
        ELSE LET decoded == B64Decode(trimmed)
             IN  IF decoded.ok THEN Len(decoded.value) = 32 ELSE FALSE

\* sidecar.rs 65-111: get_or_create_cache_key_b64_file.
get_or_create_cache_key_b64_file(file, w) ==
    IF w.fs # "unreadable" /\ IsSome(file) /\ is_valid_cache_key_b64(Unwrap(file))
    THEN [result |-> Ok(Trim(Unwrap(file))), file |-> file, ops |-> <<"read_to_string">>]
    ELSE IF w.fs = "dir_fails"
    THEN [result |-> Err("Failed to create cache key directory: Permission denied (os error 13)"),
          file |-> file, ops |-> <<"read_to_string", "create_dir_all">>]
    ELSE IF ~w.rng
    THEN [result |-> Err("Failed to generate cache key: getrandom: unavailable"),
          file |-> file, ops |-> <<"read_to_string", "create_dir_all">>]
    ELSE IF w.fs = "open_fails"
    THEN [result |-> Err("Failed to write cache key file: Permission denied (os error 13)"),
          file |-> file, ops |-> <<"read_to_string", "create_dir_all", "open">>]
    ELSE IF w.fs = "write_fails"
    THEN [result |-> Err("Failed to write cache key file: No space left on device (os error 28)"),
          file |-> Some(""),
          ops |-> <<"read_to_string", "create_dir_all", "open", "write_all">>]
    ELSE [result |-> Ok(EncodeKey(w.key)), file |-> Some(EncodeKey(w.key)),
          ops |-> <<"read_to_string", "create_dir_all", "open", "write_all">>]

\* sidecar.rs 129-133 and 145-149: whether the variable name is set to "1" or
\* to "true" in any case.
EnvFlag(vars_, name) ==
    IF name \in DOMAIN vars_
    THEN vars_[name] = "1" \/ eq_ignore_ascii_case(vars_[name], "true")
    ELSE FALSE

\* A policy that prefers the secret store in every build.
AlwaysPreferKeyring(cfg) == TRUE

\* sidecar.rs 128-133.
prefer_keyring(cfg) == ~cfg.debug \/ EnvFlag(cfg.vars, "ENTRA_TOKEN_STUDIO_DEV_USE_KEYRING")

\* A policy that admits the key file in every build.
FallbackAlways(cfg) == TRUE

\* sidecar.rs 144-149.
allow_file_fallback(cfg) == cfg.debug \/ EnvFlag(cfg.vars, "ENTRA_TOKEN_STUDIO_ALLOW_FILE_CACHE_KEY")

\* The tag left as the paths set it.
SourceKept(cache_key_source) == cache_key_source

\* sidecar.rs 164: the tag recorded when no path named one.
SourceOrNone(cache_key_source) ==
    IF IsSome(cache_key_source) THEN cache_key_source ELSE Some("none")

\* A path of the provisioner that was not taken: no result, the store as it
\* was, no operation on it.
NotConsulted(store) == [result |-> None, store |-> store, ops |-> <<>>]

\* sidecar.rs 113-165: init_sidecar_env up to the value it hands to
\* SIDECAR_ENV.set: the SidecarEnv, the Result of each path that was taken
\* (None for one that was not), the two stores after the run and the
\* operations performed on each.
init_sidecar_env(cfg, entry, file, w) ==
    LET Taken(result, store, ops) == [result |-> Some(result), store |-> store, ops |-> ops]
        KeyOf(from) == IF IsSome(from.result) /\ Unwrap(from.result).ok
                       THEN Some(Unwrap(from.result).value)
                       ELSE None
        Recorded(fromKeyring, fromFile, keyringKey, fileKey) ==
            [env |-> [data_dir |-> w.data_dir,
                      cache_key_b64 |-> IF IsSome(keyringKey) THEN keyringKey ELSE fileKey,
                      cache_key_source |->
                          SourceOrNone(IF IsSome(keyringKey) THEN Some("keyring")
                                       ELSE IF IsSome(fileKey) THEN Some("file")
                                       ELSE None)],
             keyring_result |-> fromKeyring.result,
             file_result |-> fromFile.result,
             entry |-> fromKeyring.store,
             file |-> fromFile.store,
             keyring_ops |-> fromKeyring.ops,
             file_ops |-> fromFile.ops]
        WithFile(fromKeyring, keyringKey, fromFile) ==
            Recorded(fromKeyring, fromFile, keyringKey, KeyOf(fromFile))
        FilePath(r) == Taken(r.result, r.file, r.ops)
        AfterKeyring(fromKeyring, keyringKey) ==
            WithFile(fromKeyring, keyringKey,
                     IF ~IsSome(keyringKey) /\ allow_file_fallback(cfg) /\ IsSome(w.data_dir)
                     THEN FilePath(get_or_create_cache_key_b64_file(file, w))
                     ELSE NotConsulted(file))
        WithKeyring(fromKeyring) == AfterKeyring(fromKeyring, KeyOf(fromKeyring))
        KeyringPath(r) == Taken(r.result, r.entry, r.ops)
    IN  WithKeyring(IF prefer_keyring(cfg)
                    THEN KeyringPath(get_or_create_cache_key_b64(entry, w))
                    ELSE NotConsulted(entry))

\* A cell that takes every value it is given.
Overwrite(cell, value) == Some(value)

\* OnceLock::set (sidecar.rs 161): the value is stored only into an empty
\* cell.
OnceLockSet(cell, value) == IF IsSome(cell) THEN cell ELSE Some(value)

\* sidecar.rs 485-495: the variables start() sets on the command from
\* SIDECAR_ENV, as a set of <<name, value>> pairs.
InjectedEnv(cell) ==
    IF ~IsSome(cell) THEN {}
    ELSE LET env == Unwrap(cell)
         IN  (IF IsSome(env.data_dir)
              THEN {<<"ENTRA_TOKEN_STUDIO_DATA_DIR", Unwrap(env.data_dir)>>} ELSE {})
             \cup (IF IsSome(env.cache_key_b64)
                   THEN {<<"ENTRA_TOKEN_STUDIO_CACHE_KEY", Unwrap(env.cache_key_b64)>>} ELSE {})
             \cup (IF IsSome(env.cache_key_source)
                   THEN {<<"ENTRA_TOKEN_STUDIO_CACHE_KEY_SOURCE", Unwrap(env.cache_key_source)>>}
                   ELSE {})

(***************************************************************************)
(* State.                                                                  *)
(***************************************************************************)
VARIABLES
    platform,    \* the target the application was built for
    child,       \* SidecarManager.child: None, or Some(pid) once spawned
    request_id,  \* SidecarManager.request_id
    start_error, \* SidecarManager.start_error
    holder,      \* the task holding the SIDECAR mutex, if any
    waiters,     \* the tasks waiting in lock().await, first come first
    pc,          \* each task's position
    cmd,         \* each task's command: its kind and, for a call, its method
    started,     \* for each task, once start() ran for its command: whether it
                 \* returned Ok, whether it ran discovery and whether it
                 \* looked for the runtime
    my_id,       \* each task's request.id inside call() (0 outside)
    got,         \* each task's line as read_line returned it, if any
    ret,         \* what each task's command returned, if it has
    alive,       \* whether the worker process is running
    stdin,       \* the worker's input pipe: chunks written and not yet read
    stdout,      \* the worker's output pipe: lines written and not yet read
    spawned,     \* how many worker processes were spawned so far
    attempt,     \* the environment of the most recent discovery, if any
    written,     \* ids of the request lines written in full, in order
    consumed,    \* ids of the response lines read, in order (None: no id)
    issued,      \* how many commands were invoked so far
    config,      \* the build and the process environment: [debug, vars]
    keyring,     \* the secret-store entry of this identity: None or Some(text)
    keyfile,     \* the key file of this identity: None or Some(text)
    sidecar_env, \* SIDECAR_ENV: None while unset, else Some(SidecarEnv)
    last,        \* the most recent run of init_sidecar_env: what it met, the
                 \* stores before it and what it returned; None before any run
    minted,      \* the encoded keys provisioning runs have created and stored
    runs,        \* how many provisioning runs there were so far
    first_env,   \* the SidecarEnv the first run of this process computed
    spawn_env    \* the variables set on the command of the spawn, if any

mgrVars == <<child, request_id, start_error>>
lockVars == <<holder, waiters>>
taskVars == <<pc, cmd, started, my_id, got, ret>>
pipeVars == <<alive, stdin, stdout>>
histVars == <<spawned, attempt, written, consumed, issued>>
keyVars == <<config, keyring, keyfile, sidecar_env, last, minted, runs, first_env>>
vars == <<platform, mgrVars, lockVars, taskVars, pipeVars, histVars, keyVars, spawn_env>>

NoCmd == [kind |-> "none", method |-> ""]
\* lib.rs 352-361: the background task of setup.
InitCmd == [kind |-> "init", method |-> ""]
\* lib.rs 102-126.
HealthCmd == [kind |-> "health", method |-> ""]
\* lib.rs 67-99, 129-273: a command forwarding one call.
RpcCmd(m) == [kind |-> "rpc", method |-> m]
\* The commands the GUI invokes: the health query and get_credential_status
\* (lib.rs 93-99), which stands for every command forwarding one call.
Commands == {HealthCmd, RpcCmd("get_credential_status")}
\* The same with the ping of the end-to-end scenarios.
SoloCommands == Commands \cup {RpcCmd("ping")}

\* The positions at which a task is inside start() or inside the body of
\* its command (call(), or the health query's reads).
InStart == {"gs_start"}
InCall == {"cmd", "write", "write_rest", "flush", "read"}

\* sidecar.rs 206-212: a manager as SidecarManager::new() makes it; first
\* is the set of tasks already on their way to it.
New(first) ==
    /\ child = None
    /\ request_id = 0
    /\ start_error = None
    /\ holder = None
    /\ waiters = IF 1 \in first THEN <<1>> ELSE <<>>
    /\ pc = [t \in Tasks |-> IF t \in first THEN "gs_lock" ELSE "idle"]
    /\ cmd = [t \in Tasks |-> IF t \in first THEN InitCmd ELSE NoCmd]
    /\ started = [t \in Tasks |-> None]
    /\ my_id = [t \in Tasks |-> 0]
    /\ got = [t \in Tasks |-> None]
    /\ ret = [t \in Tasks |-> None]
    /\ alive = FALSE
    /\ stdin = <<>>
    /\ stdout = <<>>
    /\ spawned = 0
    /\ attempt = None
    /\ written = <<>>
    /\ consumed = <<>>
    /\ issued = 0
    /\ spawn_env = None

\* A release build with no variable set.
ReleaseConfig == [debug |-> FALSE, vars |-> NoVars]

\* The bytes getrandom yields in the n-th provisioning run.
KeyBytes(n) == [i \in 1..32 |-> (i * 37 + n * 101) % 256]

\* A machine with no secret service and no data directory.
BareWorld ==
    [keyring |-> "no_service", fs |-> "ok", rng |-> TRUE, key |-> KeyBytes(1), data_dir |-> None]

\* SIDECAR_ENV is unset: init_sidecar_env has not run in this process.
Unprovisioned ==
    /\ sidecar_env = None
    /\ first_env = None
    /\ last = None
    /\ minted = {}
    /\ runs = 0

\* lib.rs 352-361 with sidecar.rs 603-605: the application has started in a
\* release build on a bare machine; init_sidecar_env has run, the manager is
\* new and the setup task is about to lock.
Started ==
    /\ New({1})
    /\ config = ReleaseConfig
    /\ keyring = None
    /\ keyfile = None
    /\ sidecar_env = Some(init_sidecar_env(ReleaseConfig, None, None, BareWorld).env)
    /\ first_env = sidecar_env
    /\ last = None
    /\ minted = {}
    /\ runs = 1

\* A new manager in the hands of an owner that has not called start().
Fresh ==
    /\ New({})
    /\ config = ReleaseConfig
    /\ keyring = None
    /\ keyfile = None
    /\ Unprovisioned

Init == platform \in RunPlatforms /\ Started

(***************************************************************************)
(* The mutex (tokio::sync::Mutex, first come first served).                *)
(***************************************************************************)
\* A lock that does not exclude: the head of the queue is let in while the
\* mutex is held.
CanLockWhileHeld(t) == waiters # <<>> /\ Head(waiters) = t

\* A lock that is no lock: any waiting task is let in.
CanLockAnyWaiter(t) == \E i \in 1..Len(waiters) : waiters[i] = t

\* Whether lock().await may complete for task t.
CanLock(t) == holder = None /\ waiters # <<>> /\ Head(waiters) = t

\* A guard that is never dropped.
GuardKept == holder' = holder

\* The guard is dropped at the end of a command.
Release == holder' = None

\* The GUI invokes a command: the task enters get_sidecar and waits in
\* lock().await (sidecar.rs 608-611).
Invoke(t, c) ==
    /\ pc[t] = "idle"
    /\ issued < MaxCmds
    /\ issued' = issued + 1
    /\ pc' = [pc EXCEPT ![t] = "gs_lock"]
    /\ cmd' = [cmd EXCEPT ![t] = c]
    /\ waiters' = Append(waiters, t)
    /\ UNCHANGED <<platform, keyVars, spawn_env, mgrVars, holder, started, my_id, got, ret, pipeVars,
                   spawned, attempt, written, consumed>>

\* The manager's owner calls call() on it directly, as the scenarios of the
\* specification do, without get_sidecar and so without start().
InvokeCall(t, c) ==
    /\ pc[t] = "idle"
    /\ issued < MaxCmds
    /\ issued' = issued + 1
    /\ pc' = [pc EXCEPT ![t] = "cmd_lock"]
    /\ cmd' = [cmd EXCEPT ![t] = c]
    /\ waiters' = Append(waiters, t)
    /\ UNCHANGED <<platform, keyVars, spawn_env, mgrVars, holder, started, my_id, got, ret, pipeVars,
                   spawned, attempt, written, consumed>>

\* lock().await completes (sidecar.rs 611, and the second lock of every
\* command, e.g. lib.rs 96).
Acquire(t) ==
    /\ pc[t] \in {"gs_lock", "cmd_lock"}
    /\ CanLock(t)
    /\ holder' = Some(t)
    /\ waiters' = SelectSeq(waiters, LAMBDA u : u # t)
    /\ pc' = [pc EXCEPT ![t] = IF pc[t] = "gs_lock" THEN "gs_start" ELSE "cmd"]
    /\ UNCHANGED <<platform, keyVars, spawn_env, mgrVars, cmd, started, my_id, got, ret, pipeVars, histVars>>

\* sidecar.rs 612-616 and the command's next line: start() runs under the
\* guard in environment e, the guard is dropped, and the task waits for the
\* mutex again.
Start(t, e) ==
    /\ pc[t] = "gs_start"
    /\ LET r == start(platform, child, start_error, e, spawned + 1)
       IN  /\ child' = r.child
           /\ start_error' = r.start_error
           /\ spawned' = IF r.spawned THEN spawned + 1 ELSE spawned
           /\ alive' = IF r.spawned THEN TRUE ELSE alive
           /\ attempt' = IF r.discovered THEN Some(e) ELSE attempt
           /\ spawn_env' = IF r.spawned THEN Some(InjectedEnv(sidecar_env)) ELSE spawn_env
           /\ started' = [started EXCEPT ![t] =
                            Some([ok |-> r.result.ok, discovered |-> r.discovered,
                                  lookup |-> r.lookup])]
    /\ Release
    /\ waiters' = Append(waiters, t)
    /\ pc' = [pc EXCEPT ![t] = "cmd_lock"]
    /\ UNCHANGED <<platform, keyVars, request_id, cmd, my_id, got, ret, stdin, stdout,
                   written, consumed, issued>>

\* A command returns value v: the guard is dropped.
Return(t, v) ==
    /\ ret' = [ret EXCEPT ![t] = Some(v)]
    /\ pc' = [pc EXCEPT ![t] = "done"]
    /\ Release

\* lib.rs 357-360: the setup task only takes the guard and drops it.
InitDone(t) ==
    /\ pc[t] = "cmd"
    /\ cmd[t].kind = "init"
    /\ Return(t, Ok("unit"))
    /\ UNCHANGED <<platform, keyVars, spawn_env, mgrVars, waiters, cmd, started, my_id, got, pipeVars, histVars>>

\* lib.rs 105-125: the health query.
Health(t) ==
    /\ pc[t] = "cmd"
    /\ cmd[t].kind = "health"
    /\ Return(t, HealthReport(child, start_error))
    /\ UNCHANGED <<platform, keyVars, spawn_env, mgrVars, waiters, cmd, started, my_id, got, pipeVars, histVars>>

(***************************************************************************)
(* SidecarManager::call (sidecar.rs 544-599), one action per await.        *)
(***************************************************************************)
\* A counter that stands still.
SameRequestId(id) == id

\* sidecar.rs 560: the id the next request takes.
NextRequestId(id) == id + 1

\* The request line of task t.
RequestOf(t) == JsonRpcRequest(my_id[t], cmd[t].method, EmptyParams)

\* sidecar.rs 550-566: the running check and the id.
CallBegin(t) ==
    /\ pc[t] = "cmd"
    /\ cmd[t].kind = "rpc"
    /\ IF ~IsSome(child)
       THEN /\ Return(t, Err(NotStartedError(start_error)))
            /\ UNCHANGED <<request_id, my_id>>
       ELSE /\ request_id' = NextRequestId(request_id)
            /\ my_id' = [my_id EXCEPT ![t] = NextRequestId(request_id)]
            /\ pc' = [pc EXCEPT ![t] = "write"]
            /\ UNCHANGED <<ret, holder>>
    /\ UNCHANGED <<platform, keyVars, spawn_env, child, start_error, waiters, cmd, started, got, pipeVars, histVars>>

\* The failure of write_all once the worker has exited.
WriteFailed(t) ==
    /\ ~alive
    /\ Return(t, Err("Failed to write to sidecar: Broken pipe (os error 32)"))
    /\ UNCHANGED <<platform, keyVars, spawn_env, mgrVars, waiters, cmd, started, my_id, got, pipeVars, histVars>>

\* A write that is made a second time.
CallWriteTwice(t) ==
    /\ pc[t] = "write"
    /\ \/ WriteFailed(t)
       \/ /\ alive
          /\ stdin' = stdin \o << [req |-> RequestOf(t), part |-> "whole"],
                                  [req |-> RequestOf(t), part |-> "whole"] >>
          /\ written' = written \o <<my_id[t], my_id[t]>>
          /\ pc' = [pc EXCEPT ![t] = "flush"]
          /\ UNCHANGED <<platform, keyVars, spawn_env, mgrVars, lockVars, cmd, started, my_id, got,
                         ret, alive, stdout, spawned, attempt, consumed, issued>>

\* sidecar.rs 573-576: write_all, when the pipe takes the whole line at once
\* or only its first part.
CallWrite(t) ==
    /\ pc[t] = "write"
    /\ \/ WriteFailed(t)
       \/ /\ alive
          /\ stdin' = Append(stdin, [req |-> RequestOf(t), part |-> "whole"])
          /\ written' = Append(written, my_id[t])
          /\ pc' = [pc EXCEPT ![t] = "flush"]
          /\ UNCHANGED <<platform, keyVars, spawn_env, mgrVars, lockVars, cmd, started, my_id, got, ret, alive, stdout,
                         spawned, attempt, consumed, issued>>
       \/ /\ alive
          /\ stdin' = Append(stdin, [req |-> RequestOf(t), part |-> "head"])
          /\ pc' = [pc EXCEPT ![t] = "write_rest"]
          /\ UNCHANGED <<platform, keyVars, spawn_env, mgrVars, lockVars, cmd, started, my_id, got, ret, alive, stdout,
                         histVars>>

\* sidecar.rs 573-576: write_all resumes and writes the rest of the line.
CallWriteRest(t) ==
    /\ pc[t] = "write_rest"
    /\ \/ WriteFailed(t)
       \/ /\ alive
          /\ stdin' = Append(stdin, [req |-> RequestOf(t), part |-> "tail"])
          /\ written' = Append(written, my_id[t])
          /\ pc' = [pc EXCEPT ![t] = "flush"]
          /\ UNCHANGED <<platform, keyVars, spawn_env, mgrVars, lockVars, cmd, started, my_id, got, ret, alive, stdout,
                         spawned, attempt, consumed, issued>>

\* sidecar.rs 577: flush (the pipe holds no buffer of its own).
CallFlush(t) ==
    /\ pc[t] = "flush"
    /\ pc' = [pc EXCEPT ![t] = "read"]
    /\ UNCHANGED <<platform, keyVars, spawn_env, mgrVars, lockVars, cmd, started, my_id, got, ret, pipeVars, histVars>>

\* The id a line carries, if it parses and has one.
LineId(line) ==
    IF line.kind = "json" /\ ParseJsonRpcResponse(line).ok
    THEN ParseJsonRpcResponse(line).value.id
    ELSE None

\* A read that gives up when there is nothing to read.
CallReadTimesOut(t) ==
    /\ pc[t] = "read"
    /\ LET line == IF stdout # <<>> THEN Head(stdout) ELSE TextLine("")
       IN  /\ got' = [got EXCEPT ![t] = IF stdout # <<>> \/ ~alive THEN Some(line) ELSE None]
           /\ consumed' = IF stdout # <<>> \/ ~alive THEN Append(consumed, LineId(line))
                          ELSE consumed
           /\ Return(t, IF stdout # <<>> \/ ~alive THEN LineOutcome(line)
                        ELSE Err("Timed out waiting for the sidecar"))
    /\ stdout' = <<>>
    /\ UNCHANGED <<platform, keyVars, spawn_env, mgrVars, waiters, cmd, started, my_id, alive, stdin,
                   spawned, attempt, written, issued>>

\* A read that refuses a response whose id is not the request's.
CallReadChecksId(t) ==
    /\ pc[t] = "read"
    /\ stdout # <<>> \/ ~alive
    /\ LET line == IF stdout # <<>> THEN Head(stdout) ELSE TextLine("")
       IN  /\ got' = [got EXCEPT ![t] = Some(line)]
           /\ consumed' = Append(consumed, LineId(line))
           /\ Return(t, IF LineOutcome(line).ok /\ LineId(line) # Some(my_id[t])
                        THEN Err("Response id does not match the request")
                        ELSE LineOutcome(line))
    /\ stdout' = <<>>
    /\ UNCHANGED <<platform, keyVars, spawn_env, mgrVars, waiters, cmd, started, my_id, alive, stdin,
                   spawned, attempt, written, issued>>

\* sidecar.rs 580-598: a new BufReader reads what the pipe holds; read_line
\* returns its first line (nothing at end of file) and the reader, with
\* whatever else it buffered, is dropped when call() returns.
CallRead(t) ==
    /\ pc[t] = "read"
    /\ stdout # <<>> \/ ~alive
    /\ LET line == IF stdout # <<>> THEN Head(stdout) ELSE TextLine("")
       IN  /\ got' = [got EXCEPT ![t] = Some(line)]
           /\ consumed' = Append(consumed, LineId(line))
           /\ Return(t, LineOutcome(line))
    /\ stdout' = <<>>
    /\ UNCHANGED <<platform, keyVars, spawn_env, mgrVars, waiters, cmd, started, my_id, alive, stdin,
                   spawned, attempt, written, issued>>

\* The command's future completes: the GUI has the result and the task is
\* free for the next command.
Finish(t) ==
    /\ pc[t] = "done"
    /\ pc' = [pc EXCEPT ![t] = "idle"]
    /\ cmd' = [cmd EXCEPT ![t] = NoCmd]
    /\ started' = [started EXCEPT ![t] = None]
    /\ my_id' = [my_id EXCEPT ![t] = 0]
    /\ got' = [got EXCEPT ![t] = None]
    /\ ret' = [ret EXCEPT ![t] = None]
    /\ UNCHANGED <<platform, keyVars, spawn_env, mgrVars, lockVars, pipeVars, histVars>>

(***************************************************************************)
(* The worker process: it reads request lines and answers each with one    *)
(* line.  It is not part of this repository's Rust sources; only its       *)
(* protocol is.                                                            *)
(***************************************************************************)
\* The number of chunks up to the first end of line in the input pipe.
LineEnd ==
    IF \E i \in 1..Len(stdin) : stdin[i].part \in {"whole", "tail"}
    THEN CHOOSE i \in 1..Len(stdin) :
            /\ stdin[i].part \in {"whole", "tail"}
            /\ \A j \in 1..(i - 1) : stdin[j].part = "head"
    ELSE 0

\* Whether the first line in the pipe is one request, written without
\* another write in between.
WellFramed(chunks) ==
    \/ Len(chunks) = 1 /\ chunks[1].part = "whole"
    \/ Len(chunks) = 2 /\ chunks[1].part = "head" /\ chunks[2].part = "tail"
                       /\ chunks[1].req = chunks[2].req

WorkerAnswers(reply) ==
    /\ alive
    /\ LineEnd > 0
    /\ stdin' = SubSeq(stdin, LineEnd + 1, Len(stdin))
    /\ stdout' = Append(stdout, reply)
    /\ UNCHANGED <<platform, keyVars, spawn_env, mgrVars, lockVars, taskVars, alive, histVars>>

\* The worker reads the first line of its input and answers it with one of
\* the lines answers(req), or with GarbledReply when the line is not one
\* request.
WorkerStep(answers(_)) ==
    /\ LineEnd > 0
    /\ IF WellFramed(SubSeq(stdin, 1, LineEnd))
       THEN \E reply \in answers(stdin[1].req) : WorkerAnswers(reply)
       ELSE WorkerAnswers(GarbledReply)

\* A worker that keeps to the protocol: a result, nothing, or an error,
\* each with the request's id.
WorkerReply == WorkerStep(ProtocolReplies)

\* A worker that may answer with any line of Replies.
WorkerAny == WorkerStep(Replies)

\* The stub: it echoes the id of the request at the head of its input.
WorkerEcho == WorkerStep(EchoReplies)

\* Upper bound on the lines waiting in the worker's output.
MaxPending == 2

\* A line no request asked for: a notification.
Notice == JsonLine(Object(<< V2, <<"method", JStr("log")>> >>))

\* The worker writes a notification to its standard output.
WorkerExtra ==
    /\ alive
    /\ Len(stdout) < MaxPending
    /\ stdout' = Append(stdout, Notice)
    /\ UNCHANGED <<platform, keyVars, spawn_env, mgrVars, lockVars, taskVars, alive, stdin, histVars>>

\* The worker process exits; the supervisor is not told.
WorkerExit ==
    /\ alive
    /\ alive' = FALSE
    /\ UNCHANGED <<platform, keyVars, spawn_env, mgrVars, lockVars, taskVars, stdin, stdout, histVars>>

(***************************************************************************)
(* Application startup and the key provisioner's runs.                     *)
(***************************************************************************)
\* Upper bound on the provisioning runs of one behaviour.
MaxRuns == 2

\* app_data_dir() where the platform has one.
DataDir == "/home/u/.local/share/studio"

\* What a provisioning run may meet: all well, the secret store out of
\* reach, unreadable or refusing a write, the file system unreadable too or
\* refusing the directory or the write, no randomness, no data directory.
Worlds(n) ==
    LET W(k, f, r, d) == [keyring |-> k, fs |-> f, rng |-> r, key |-> KeyBytes(n), data_dir |-> d]
    IN  { W("ok", "ok", TRUE, Some(DataDir)),
          W("no_service", "ok", TRUE, Some(DataDir)),
          W("unreadable", "ok", TRUE, Some(DataDir)),
          W("set_fails", "ok", TRUE, Some(DataDir)),
          W("unreadable", "unreadable", TRUE, Some(DataDir)),
          W("no_service", "dir_fails", TRUE, Some(DataDir)),
          W("no_service", "write_fails", TRUE, Some(DataDir)),
          W("ok", "ok", FALSE, Some(DataDir)),
          W("unreadable", "ok", TRUE, None) }

\* The builds and process environments the application is started with.
Var(name, value) == [n \in {name} |-> value]
Configs ==
    { ReleaseConfig,
      [debug |-> FALSE, vars |-> Var("ENTRA_TOKEN_STUDIO_ALLOW_FILE_CACHE_KEY", "1")],
      [debug |-> FALSE, vars |-> Var("ENTRA_TOKEN_STUDIO_ALLOW_FILE_CACHE_KEY", "0")],
      [debug |-> TRUE, vars |-> NoVars],
      [debug |-> TRUE, vars |-> Var("ENTRA_TOKEN_STUDIO_DEV_USE_KEYRING", "TRUE")],
      [debug |-> TRUE, vars |-> Var("ENTRA_TOKEN_STUDIO_DEV_USE_KEYRING", "yes")] }

\* A key stored by an earlier installation, and texts that are no key.
OldKey == B64Encode([i \in 1..32 |-> (i * 7 + 3) % 256])
ShortKey == B64Encode([i \in 1..16 |-> (i * 5 + 1) % 256])
StoredEntries == {None, Some(" "), Some(OldKey), Some("not-a-key")}
StoredFiles == {None, Some(OldKey \o "\n"), Some(ShortKey)}

\* The process has been launched and setup has not run yet (lib.rs 282-321).
Launched ==
    /\ platform = "linux"
    /\ New({})
    /\ config \in Configs
    /\ keyring \in StoredEntries
    /\ keyfile \in StoredFiles
    /\ Unprovisioned

\* One run of init_sidecar_env (sidecar.rs 113-166) in world w.
Provision(w) ==
    /\ runs < MaxRuns
    /\ runs' = runs + 1
    /\ \E out \in {init_sidecar_env(config, keyring, keyfile, w)} :
          /\ keyring' = out.entry
          /\ keyfile' = out.file
          /\ sidecar_env' = OnceLockSet(sidecar_env, out.env)
          /\ first_env' = IF IsSome(first_env) THEN first_env ELSE Some(out.env)
          /\ last' = Some([w |-> w, entry |-> keyring, file |-> keyfile, out |-> out])
          /\ minted' = IF \/ /\ out.env.cache_key_source = Some("keyring")
                             /\ "set_password" \in Range(out.keyring_ops)
                          \/ /\ out.env.cache_key_source = Some("file")
                             /\ "write_all" \in Range(out.file_ops)
                       THEN minted \cup {Unwrap(out.env.cache_key_b64)}
                       ELSE minted
    /\ UNCHANGED config

\* lib.rs 352-361: setup runs init_sidecar_env and then spawns the task that
\* starts the sidecar.
Setup(t, w) ==
    /\ sidecar_env = None
    /\ pc[t] = "idle"
    /\ Provision(w)
    /\ pc' = [pc EXCEPT ![t] = "gs_lock"]
    /\ cmd' = [cmd EXCEPT ![t] = InitCmd]
    /\ waiters' = Append(waiters, t)
    /\ UNCHANGED <<platform, mgrVars, holder, started, my_id, got, ret, pipeVars, histVars,
                   spawn_env>>

\* init_sidecar_env is called again in the same process.
Reprovision(w) ==
    /\ IsSome(sidecar_env)
    /\ Provision(w)
    /\ UNCHANGED <<platform, mgrVars, lockVars, taskVars, pipeVars, histVars, spawn_env>>

\* The application exits and is launched again: the stores stay, the
\* process's memory and its worker do not.
Restart ==
    /\ IsSome(sidecar_env)
    /\ runs < MaxRuns
    /\ \A t \in Tasks : pc[t] = "idle"
    /\ child' = None /\ request_id' = 0 /\ start_error' = None
    /\ alive' = FALSE /\ stdin' = <<>> /\ stdout' = <<>>
    /\ spawned' = 0 /\ attempt' = None /\ written' = <<>> /\ consumed' = <<>>
    /\ spawn_env' = None
    /\ sidecar_env' = None
    /\ first_env' = None
    /\ UNCHANGED <<platform, lockVars, taskVars, issued, config, keyring, keyfile, last,
                   minted, runs>>

(***************************************************************************)
(* Specifications.                                                         *)
(***************************************************************************)
\* Concurrent commands against a worker that keeps to the protocol or exits.
Next ==
    \/ \E t \in Tasks, c \in Commands : Invoke(t, c)
    \/ \E t \in Tasks : Acquire(t)
    \/ \E t \in Tasks, e \in StartEnvs(platform) : Start(t, e)
    \/ \E t \in Tasks : InitDone(t)
    \/ \E t \in Tasks : Health(t)
    \/ \E t \in Tasks : CallBegin(t)
    \/ \E t \in Tasks : CallWrite(t)
    \/ \E t \in Tasks : CallWriteRest(t)
    \/ \E t \in Tasks : CallFlush(t)
    \/ \E t \in Tasks : CallRead(t)
    \/ \E t \in Tasks : Finish(t)
    \/ WorkerReply
    \/ WorkerExit

Spec == Init /\ [][Next]_vars

\* Concurrent commands against the echoing stub, which never exits.
NextEcho ==
    \/ \E t \in Tasks, c \in Commands : Invoke(t, c)
    \/ \E t \in Tasks : Acquire(t)
    \/ \E t \in Tasks, e \in StartEnvs(platform) : Start(t, e)
    \/ \E t \in Tasks : InitDone(t)
    \/ \E t \in Tasks : Health(t)
    \/ \E t \in Tasks : CallBegin(t)
    \/ \E t \in Tasks : CallWrite(t)
    \/ \E t \in Tasks : CallWriteRest(t)
    \/ \E t \in Tasks : CallFlush(t)
    \/ \E t \in Tasks : CallRead(t)
    \/ \E t \in Tasks : Finish(t)
    \/ WorkerEcho

SpecEcho == Init /\ [][NextEcho]_vars

\* The steps of the body of task t's command that the runtime takes once
\* they are ready: taking the guard and the steps after start().  Invoking
\* a command and taking its result are the GUI's.
TaskStep(t) ==
    \/ Acquire(t)
    \/ InitDone(t)
    \/ Health(t)
    \/ CallBegin(t)
    \/ CallWrite(t)
    \/ CallWriteRest(t)
    \/ CallFlush(t)
    \/ CallRead(t)

\* A Start step of task t, told by the task's position alone: Start(t, e)
\* is the one action that leaves "gs_start", it is enabled whenever the
\* task is there, and it moves the task to "cmd_lock".
StartReturns(t) ==
    /\ pc[t] = "gs_start"
    /\ pc' = [pc EXCEPT ![t] = "cmd_lock"]

\* The stub worker under fair scheduling: the runtime polls every task that
\* stays ready (tokio's scheduler; its mutex wakes waiters first come first
\* served), start() runs to its end once entered, and the worker answers
\* each request line it is sent.
SpecFair ==
    /\ Init
    /\ [][NextEcho]_vars
    /\ \A t \in Tasks : WF_vars(TaskStep(t))
    /\ \A t \in Tasks : WF_pc(StartReturns(t))
    /\ WF_vars(WorkerEcho)

\* One owner of the manager (task 1 alone), through the commands or through
\* call() directly, on every platform, in every environment of SoloEnvs,
\* against a worker that may answer with any line of Replies or exit.  The
\* manager is the application's, with the setup task on its way, or a new
\* one used directly.
InitSolo == platform \in Platforms /\ (Started \/ Fresh)

NextSolo ==
    \/ \E c \in SoloCommands : Invoke(1, c)
    \/ InvokeCall(1, RpcCmd("ping"))
    \/ Acquire(1)
    \/ \E e \in SoloEnvs(platform) : Start(1, e)
    \/ InitDone(1)
    \/ Health(1)
    \/ CallBegin(1)
    \/ CallWrite(1)
    \/ CallWriteRest(1)
    \/ CallFlush(1)
    \/ CallRead(1)
    \/ Finish(1)
    \/ WorkerAny
    \/ WorkerExit

SpecSolo == InitSolo /\ [][NextSolo]_vars

\* Startup: the key provisioner's runs, the setup task's start() and
\* restarts of the application over the same stores.

NextKeys ==
    \/ \E w \in Worlds(runs + 1) : Setup(1, w)
    \/ \E w \in Worlds(runs + 1) : Reprovision(w)
    \/ Acquire(1)
    \/ Start(1, GoodEnv(platform))
    \/ InitDone(1)
    \/ Finish(1)
    \/ Restart

SpecKeys == Launched /\ [][NextKeys]_vars

\* One owner issuing pings against a worker that keeps to the protocol in
\* its replies and also writes notifications.
NextChatty ==
    \/ Invoke(1, RpcCmd("ping"))
    \/ Acquire(1)
    \/ Start(1, GoodEnv(platform))
    \/ InitDone(1)
    \/ CallBegin(1)
    \/ CallWrite(1)
    \/ CallWriteRest(1)
    \/ CallFlush(1)
    \/ CallRead(1)
    \/ Finish(1)
    \/ WorkerReply
    \/ WorkerExtra

SpecChatty == Init /\ [][NextChatty]_vars

\* The setup task and health queries of one owner, on every platform, each
\* start() meeting any environment of LocateEnvs.
NextLocate ==
    \/ Invoke(1, HealthCmd)
    \/ Acquire(1)
    \/ \E e \in LocateEnvs(platform) : Start(1, e)
    \/ InitDone(1)
    \/ Health(1)
    \/ Finish(1)

InitLocate == platform \in Platforms /\ Started

SpecLocate == InitLocate /\ [][NextLocate]_vars

(***************************************************************************)
(* Properties.                                                             *)
(***************************************************************************)
\* A step in which task t runs start() (and get_sidecar returns).
StartStep(t) == pc[t] = "gs_start" /\ pc'[t] = "cmd_lock"
\* A step in which task t enters call().
CallStep(t) == pc[t] = "cmd" /\ cmd[t].kind = "rpc" /\ pc'[t] # "cmd"
\* A step in which task t runs the health query.
HealthStep(t) == pc[t] = "cmd" /\ cmd[t].kind = "health" /\ pc'[t] = "done"

\* C1: over every interleaving of start() invocations and commands the
\* worker is spawned at most once, and a start() that finds a child handle
\* returns Ok without discovery or spawn and leaves the handle, the request
\* counter and the last error as they were.
C1_SpawnedAtMostOnce ==
    /\ [](spawned <= 1)
    /\ [][\A t \in Tasks :
            (StartStep(t) /\ IsSome(child)) =>
                /\ started'[t] = Some([ok |-> TRUE, discovered |-> FALSE, lookup |-> FALSE])
                /\ spawned' = spawned
                /\ attempt' = attempt
                /\ child' = child
                /\ request_id' = request_id
                /\ start_error' = start_error]_vars

\* A start() found the handle another task's start() had stored.
C1_Witness ==
    \E t \in Tasks :
        /\ started[t] = Some([ok |-> TRUE, discovered |-> FALSE, lookup |-> FALSE])
        /\ spawned = 1

\* C2: at most one task is inside start() or inside the body of its command
\* at any instant, and that task holds the mutex.
C2_MutualExclusion ==
    \A t, u \in Tasks :
        (pc[t] \in InStart \cup InCall /\ pc[u] \in InStart \cup InCall) =>
            (t = u /\ holder = Some(t))

\* One task is reading the reply inside call() while another waits for the
\* mutex.
C2_Witness ==
    \E t, u \in Tasks :
        /\ pc[t] = "read"
        /\ pc[u] \in {"gs_lock", "cmd_lock"}

\* Whether the chunks in the worker's input are whole request lines, each
\* first part followed at once by the rest of the same request.
Unmixed(chunks) ==
    \A i \in 1..Len(chunks) :
        /\ chunks[i].part = "head" =>
              (i = Len(chunks) \/ (chunks[i + 1].part = "tail" /\ chunks[i + 1].req = chunks[i].req))
        /\ chunks[i].part = "tail" =>
              (i > 1 /\ chunks[i - 1].part = "head" /\ chunks[i - 1].req = chunks[i].req)

\* C3: against the echoing worker every caller reads the response carrying
\* the id of the request it wrote and succeeds with its result, responses
\* are consumed in the order the requests were written, and no request line
\* is interleaved with the write of another call.
C3_EchoedInOrder ==
    /\ \A t \in Tasks :
          IsSome(got[t]) =>
              /\ LineId(Unwrap(got[t])) = Some(my_id[t])
              /\ ret[t] = Some(Ok(OkTrue))
    /\ Len(consumed) <= Len(written)
    /\ \A i \in 1..Len(consumed) : consumed[i] = Some(written[i])
    /\ Unmixed(stdin)
    /\ \A t \in Tasks : pc[t] = "write_rest" =>
          (stdin # <<>> /\ stdin[Len(stdin)] = [req |-> RequestOf(t), part |-> "head"])

\* Two concurrent calls have both been answered, the first with id 1 and the
\* second with id 2.
C3_Witness ==
    \E t, u \in Tasks :
        /\ t # u
        /\ IsSome(got[t]) /\ my_id[t] = 1
        /\ IsSome(got[u]) /\ my_id[u] = 2
        /\ consumed = <<Some(1), Some(2)>>

\* C4: the ids written are 1, 2, ... in strictly increasing order with no id
\* twice; the counter moves only when a call finds a child handle, by one,
\* that call taking the new value, and is never given back, so a call that
\* fails later has used up its id.
C4_IdsStrictlyIncreasing ==
    /\ [](/\ \A i \in 1..Len(written) : written[i] >= 1 /\ written[i] <= request_id
          /\ \A i, j \in 1..Len(written) : i < j => written[i] < written[j]
          /\ written # <<>> => written[1] = 1
          /\ \A t \in Tasks : my_id[t] <= request_id
          /\ \A t, u \in Tasks : (t # u /\ my_id[t] # 0) => my_id[t] # my_id[u])
    /\ [][/\ request_id' # request_id =>
                \E t \in Tasks : CallStep(t) /\ IsSome(child)
          /\ \A t \in Tasks :
                (CallStep(t) /\ IsSome(child)) =>
                    /\ request_id' = request_id + 1
                    /\ my_id'[t] = request_id + 1]_vars

\* A call that took id 1 has failed and another call holds id 2.
C4_Witness ==
    \E t, u \in Tasks :
        /\ pc[t] = "done" /\ cmd[t].kind = "rpc" /\ ~Unwrap(ret[t]).ok
        /\ my_id[t] = 1
        /\ my_id[u] = 2

\* C5: a call made while no child handle is held returns at once with the
\* text "Sidecar not started", followed by ": " and the recorded reason when
\* there is one; nothing is written to the worker and the request counter
\* stays where it was.
C5_NotStartedFailsAtOnce ==
    [][\A t \in Tasks :
          (CallStep(t) /\ ~IsSome(child)) =>
              /\ pc'[t] = "done"
              /\ ret'[t] = Some(Err(IF IsSome(start_error)
                                    THEN "Sidecar not started: " \o Unwrap(start_error)
                                    ELSE "Sidecar not started"))
              /\ request_id' = request_id
              /\ my_id'[t] = 0
              /\ stdin' = stdin
              /\ written' = written]_vars

\* A call has failed with the marker and the reason of the failed start.
C5_Witness ==
    \E t \in Tasks :
        /\ pc[t] = "done" /\ cmd[t].kind = "rpc"
        /\ child = None /\ IsSome(start_error)
        /\ ret[t] = Some(Err("Sidecar not started: " \o Unwrap(start_error)))
        /\ written = <<>> /\ request_id = 0

\* The calls that have read a line that parsed.
Parsed == { t \in Tasks : /\ pc[t] = "done" /\ cmd[t].kind = "rpc" /\ IsSome(got[t])
                          /\ Unwrap(got[t]).kind = "json"
                          /\ ParseJsonRpcResponse(Unwrap(got[t])).ok }

\* The first request of the end-to-end scenarios, as it is on the wire.
PingRequest ==
    Object(<< V2, <<"id", JNum(1)>>, <<"method", JStr("ping")>>, <<"params", JObj(EmptyFields)>> >>)

\* C6: a call whose response line parsed and carried no error has succeeded,
\* with the line's result when it has one and with null when it has none;
\* the first request, a ping, is the line PingRequest and the reply with
\* result {"ok":true} to it yields {"ok":true}.
C6_SuccessWithResultOrNull ==
    /\ \A t \in Parsed :
          LET v == Unwrap(got[t]).v
          IN  Absent(v, "error") =>
                  ret[t] = Some(Ok(IF Has(v, "result") THEN v.f["result"] ELSE JNull))
    /\ \A i \in 1..Len(stdin) :
          (stdin[i].req.f["id"] = JNum(1) /\ stdin[i].req.f["method"] = JStr("ping")) =>
              stdin[i].req = PingRequest
    /\ \A t \in Tasks :
          (cmd[t].method = "ping" /\ my_id[t] = 1 /\ got[t] = Some(EchoReply(PingRequest))) =>
              ret[t] = Some(Ok(OkTrue))

\* The ping was the first request and its reply had result {"ok":true}.
C6_Witness ==
    \E t \in Tasks :
        /\ cmd[t].method = "ping" /\ my_id[t] = 1
        /\ got[t] = Some(EchoReply(PingRequest))
        /\ ret[t] = Some(Ok(OkTrue))

\* C7: a call whose response line parsed and carried an error object has
\* failed with exactly the error's message, whether or not the line also
\* carried a result.
C7_ErrorMessagePassedThrough ==
    \A t \in Parsed :
        LET v == Unwrap(got[t]).v
        IN  ~Absent(v, "error") => ret[t] = Some(Err(v.f["error"].f["message"].s))

\* The line read carried both a result and the error "boom".
C7_Witness ==
    \E t \in Tasks :
        /\ pc[t] = "done"
        /\ got[t] = Some(JsonLine(Object(<< V2, <<"id", JNum(my_id[t])>>,
                                            <<"result", OkTrue>>, <<"error", Boom>> >>)))
        /\ ret[t] = Some(Err("boom"))

\* Whether script discovery, runtime discovery and spawn all succeed in
\* environment e.
AllThreeSucceed(e) ==
    /\ sidecar_script(platform, e).ok
    /\ IsSome(find_node_executable(platform, e))
    /\ e.spawn = "ok"

\* C8: a start() that finds no child handle runs discovery and spawn anew
\* whatever the last error was: it stores a handle, with no error left, when
\* script, runtime and spawn all succeed in the environment it meets, and
\* otherwise stores no handle and records a reason; so a start() after a
\* failed one succeeds once script and runtime are there.
C8_StartRediscovers ==
    [][\A t \in Tasks :
          (StartStep(t) /\ ~IsSome(child)) =>
              /\ started'[t] # None
              /\ Unwrap(started'[t]).discovered
              /\ IsSome(attempt')
              /\ IF AllThreeSucceed(Unwrap(attempt'))
                 THEN /\ IsSome(child') /\ start_error' = None
                      /\ Unwrap(started'[t]).ok
                      /\ spawned' = spawned + 1
                 ELSE /\ child' = None /\ IsSome(start_error')
                      /\ Len(Unwrap(start_error')) > 0
                      /\ ~Unwrap(started'[t]).ok
                      /\ spawned' = spawned]_vars

\* One task's start() failed and a later start() of another task, with
\* nothing reset in between, discovered again and reached Running.
C8_Witness ==
    \E t, u \in Tasks :
        /\ started[t] # None /\ ~Unwrap(started[t]).ok /\ Unwrap(started[t]).discovered
        /\ started[u] = Some([ok |-> TRUE, discovered |-> TRUE, lookup |-> TRUE])
        /\ IsSome(child) /\ spawned = 1

\* The health replies held by the tasks that have run the health query.
HealthReplies ==
    { Unwrap(ret[t]) : t \in { u \in Tasks : pc[u] = "done" /\ cmd[u].kind = "health" } }

\* C9: while a child handle is held no error is recorded, no health reply
\* has running = true together with an error or an error code, and a
\* recorded error is the reason the most recent discovery failed with.
C9_SuccessClearsError ==
    /\ IsSome(child) => start_error = None
    /\ \A r \in HealthReplies : r.running => (r.error = None /\ r.errorCode = None)
    /\ IsSome(start_error) =>
          /\ IsSome(attempt)
          /\ ~AllThreeSucceed(Unwrap(attempt))
          /\ Discover(platform, None, Unwrap(attempt), 0).result = Err(Unwrap(start_error))

\* A start failed, a later one succeeded, and the health query then
\* reported running with neither error nor code.
C9_Witness ==
    \E t \in Tasks :
        /\ started[t] # None /\ ~Unwrap(started[t]).ok /\ Unwrap(started[t]).discovered
        /\ [running |-> TRUE, error |-> None, errorCode |-> None] \in HealthReplies

ProvisionStep == runs' = runs + 1

\* A text that decodes, once trimmed, to exactly 32 bytes.
DecodesTo32(text) ==
    /\ B64Decode(Trim(text)).ok
    /\ Len(B64Decode(Trim(text)).value) = 32

\* Whether the run described by r took the secret-store path and could read
\* the entry, and the same for the key file.
ReadEntry(r) == IsSome(r.out.keyring_result) /\ r.w.keyring \notin {"no_service", "unreadable"}
ReadFile(r) == IsSome(r.out.file_result) /\ r.w.fs # "unreadable"

\* C11: a run whose read of the secret-store entry fails with an error
\* other than the entry's absence leaves the entry as it was, neither
\* deletes nor sets it, and gets a failure from the secret-store path, so
\* no key of provenance keyring comes out of it.
C11_ReadErrorKeepsEntry ==
    [][ProvisionStep =>
          LET r == Unwrap(last')
          IN  (IsSome(r.out.keyring_result) /\ r.w.keyring = "unreadable") =>
                  /\ keyring' = keyring
                  /\ r.out.keyring_ops = <<"get_password">>
                  /\ ~Unwrap(r.out.keyring_result).ok
                  /\ r.out.env.cache_key_source # Some("keyring")
                  /\ minted' # minted => r.out.env.cache_key_source = Some("file")]_vars

\* The entry held a key, the read failed, and the key is still there.
C11_Witness ==
    /\ IsSome(last)
    /\ Unwrap(last).w.keyring = "unreadable"
    /\ Unwrap(last).out.keyring_ops = <<"get_password">>
    /\ Unwrap(last).entry = Some(OldKey)
    /\ keyring = Some(OldKey)

InjectedKeys == {p[2] : p \in {q \in Unwrap(spawn_env) : q[1] = "ENTRA_TOKEN_STUDIO_CACHE_KEY"}}

\* C13: a run that reads a stored entry or key file not decoding to exactly
\* 32 bytes, with the store writable and the random source working, leaves
\* a fresh 32-byte key there, and every key injected into a worker decodes
\* to exactly 32 bytes.
C13_InvalidEntryRegenerated ==
    /\ IsSome(spawn_env) => \A k \in InjectedKeys : DecodesTo32(k)
    /\ IsSome(last) =>
          LET r == Unwrap(last)
          IN  /\ ( /\ ReadEntry(r) /\ r.w.keyring = "ok" /\ r.w.rng
                   /\ IsSome(r.entry) /\ ~DecodesTo32(Unwrap(r.entry)) ) =>
                      /\ r.out.entry # r.entry
                      /\ DecodesTo32(Unwrap(r.out.entry))
                      /\ r.out.env.cache_key_b64 = r.out.entry
              /\ ( /\ ReadFile(r) /\ r.w.fs = "ok" /\ r.w.rng
                   /\ IsSome(r.file) /\ ~DecodesTo32(Unwrap(r.file)) ) =>
                      /\ r.out.file # r.file
                      /\ DecodesTo32(Unwrap(r.out.file))
                      /\ r.out.env.cache_key_b64 = r.out.file

\* The key-file half of C13, which the file path keeps: an invalid key file
\* is overwritten with a fresh 32-byte key, and a key of provenance file
\* always decodes to 32 bytes.
C13_FileHalf ==
    /\ (IsSome(spawn_env) /\ <<"ENTRA_TOKEN_STUDIO_CACHE_KEY_SOURCE", "file">> \in Unwrap(spawn_env)) =>
          \A k \in InjectedKeys : DecodesTo32(k)
    /\ IsSome(last) =>
          LET r == Unwrap(last)
          IN  ( /\ ReadFile(r) /\ r.w.fs = "ok" /\ r.w.rng
                /\ IsSome(r.file) /\ ~DecodesTo32(Unwrap(r.file)) ) =>
                   /\ r.out.file # r.file
                   /\ DecodesTo32(Unwrap(r.out.file))
                   /\ r.out.env.cache_key_b64 = r.out.file

\* A worker was spawned with the secret-store entry "not-a-key" as its key,
\* the entry still in the store.
C13_Witness ==
    /\ IsSome(spawn_env)
    /\ InjectedKeys = {"not-a-key"}
    /\ <<"ENTRA_TOKEN_STUDIO_CACHE_KEY_SOURCE", "keyring">> \in Unwrap(spawn_env)
    /\ keyring = Some("not-a-key")

\* Whether the process was started with the variable name set to an
\* accepted spelling of yes.
FlagOn(name) ==
    name \in DOMAIN config.vars /\ config.vars[name] \in {"1", "true", "True", "TRUE"}

\* Whether a path was taken and gave a key, was taken and failed, or failed
\* or was not taken.
Gave(result) == IsSome(result) /\ Unwrap(result).ok
Failed(result) == IsSome(result) /\ ~Unwrap(result).ok
NoKeyFrom(result) == ~Gave(result)

InjectedSources ==
    {p[2] : p \in {q \in Unwrap(spawn_env) : q[1] = "ENTRA_TOKEN_STUDIO_CACHE_KEY_SOURCE"}}

\* The tag and key of an environment agree: the tag is one of the three,
\* and it is none exactly when there is no key.
Tagged(env) ==
    /\ env.cache_key_source \in {Some("keyring"), Some("file"), Some("none")}
    /\ env.cache_key_source = Some("none") <=> ~IsSome(env.cache_key_b64)

\* C15: the recorded environment carries a tag among keyring, file and
\* none, none exactly when it has no key; a spawn injects exactly one tag,
\* the recorded one, and a key exactly when the tag is not none; and each
\* run tags the key keyring exactly when the secret-store path returned it
\* and file exactly when the key-file path returned it.
C15_ProvenanceMatchesOrigin ==
    /\ [](IsSome(sidecar_env) => Tagged(Unwrap(sidecar_env)))
    /\ [](IsSome(spawn_env) =>
            /\ InjectedSources = {Unwrap(Unwrap(sidecar_env).cache_key_source)}
            /\ InjectedKeys = IF "none" \in InjectedSources THEN {}
                              ELSE {Unwrap(Unwrap(sidecar_env).cache_key_b64)})
    /\ [][ProvisionStep =>
            LET out == Unwrap(last').out
            IN  /\ Tagged(out.env)
                /\ out.env.cache_key_source = Some("keyring") <=>
                      /\ Gave(out.keyring_result)
                      /\ out.env.cache_key_b64 = Some(Unwrap(out.keyring_result).value)
                /\ out.env.cache_key_source = Some("file") <=>
                      /\ Gave(out.file_result)
                      /\ ~IsSome(out.keyring_result) \/ Failed(out.keyring_result)
                      /\ out.env.cache_key_b64 = Some(Unwrap(out.file_result).value)]_vars

\* A worker was spawned with the tag file and the key the key-file path
\* returned after the secret-store path had failed.
C15_Witness ==
    /\ IsSome(spawn_env)
    /\ InjectedSources = {"file"}
    /\ IsSome(last)
    /\ Failed(Unwrap(last).out.keyring_result)
    /\ Gave(Unwrap(last).out.file_result)
    /\ InjectedKeys = {Unwrap(Unwrap(last).out.file_result).value}

\* A step that ends the process and launches it anew.
RestartStep == IsSome(sidecar_env) /\ ~IsSome(sidecar_env')

\* C16: once written, the recorded environment stays as it is for the rest
\* of the process, whatever later runs of the provisioner compute; it is
\* the environment of the first run; and every spawn happens after it was
\* written and injects its values.
C16_WrittenOnce ==
    /\ [][(IsSome(sidecar_env) /\ ~RestartStep) => sidecar_env' = sidecar_env]_vars
    /\ [][(ProvisionStep /\ ~IsSome(sidecar_env)) =>
             sidecar_env' = Some(Unwrap(last').out.env)]_vars
    /\ [](sidecar_env = first_env)
    /\ [](IsSome(spawn_env) =>
             IsSome(first_env) /\ spawn_env = Some(InjectedEnv(first_env)))
    /\ [][spawn_env' # spawn_env /\ IsSome(spawn_env') =>
             IsSome(sidecar_env) /\ spawn_env' = Some(InjectedEnv(sidecar_env))]_vars

\* A second run in the same process computed another environment than the
\* first, and the worker was spawned with that of the first.
C16_Witness ==
    /\ IsSome(last)
    /\ IsSome(sidecar_env)
    /\ Unwrap(last).out.env # Unwrap(sidecar_env)
    /\ IsSome(Unwrap(last).out.env.cache_key_b64)
    /\ spawn_env = Some(InjectedEnv(sidecar_env))
    /\ spawned = 1

\* C17: a release build, and a development build with
\* ENTRA_TOKEN_STUDIO_DEV_USE_KEYRING on, take the secret-store path in
\* every run and the key-file path only in runs where the secret-store path
\* failed; a development build without the override never takes the
\* secret-store path, performs no operation on the entry, leaves it as it
\* was, and goes to the key file whenever the data directory is known.
C17_KeyStorePolicy ==
    [][ProvisionStep =>
          LET out == Unwrap(last').out
              w == Unwrap(last').w
          IN  IF ~config.debug \/ FlagOn("ENTRA_TOKEN_STUDIO_DEV_USE_KEYRING")
              THEN /\ IsSome(out.keyring_result)
                   /\ IsSome(out.file_result) => Failed(out.keyring_result)
                   /\ Gave(out.keyring_result) =>
                         /\ out.env.cache_key_source = Some("keyring")
                         /\ out.file_ops = <<>>
                         /\ keyfile' = keyfile
                   /\ (config.debug /\ Failed(out.keyring_result) /\ IsSome(w.data_dir)) =>
                         IsSome(out.file_result)
              ELSE /\ ~IsSome(out.keyring_result)
                   /\ out.keyring_ops = <<>>
                   /\ keyring' = keyring
                   /\ out.env.cache_key_source # Some("keyring")
                   /\ IsSome(w.data_dir) => IsSome(out.file_result)]_vars

\* A development build without the override ran with a key in the secret
\* store and a working store: the key came from the file, the entry was
\* not touched.
C17_Witness ==
    /\ IsSome(last)
    /\ config.debug
    /\ ~FlagOn("ENTRA_TOKEN_STUDIO_DEV_USE_KEYRING")
    /\ Unwrap(last).w.keyring = "ok"
    /\ Unwrap(last).entry = Some(OldKey)
    /\ keyring = Some(OldKey)
    /\ Unwrap(last).out.keyring_ops = <<>>
    /\ Unwrap(last).out.env.cache_key_source = Some("file")

\* A step task t takes inside call().
InCallStep(t) == pc[t] \in InCall /\ cmd[t].kind = "rpc" /\ pc'[t] # pc[t]

\* C18: no step of call(), failing or not, changes the child handle, the
\* recorded error or the number of spawns, and a call writes its request
\* line at most once; a handle once held is held after every step, the
\* worker's exit included, so that a health query answers running = true
\* and a later start() spawns nothing.
C18_CallFailureLeavesSupervisor ==
    /\ [][\A t \in Tasks :
            InCallStep(t) =>
                /\ child' = child
                /\ start_error' = start_error
                /\ spawned' = spawned
                /\ alive' = alive
                /\ written' = written \/ written' = Append(written, my_id'[t])]_vars
    /\ [](\A i, j \in 1..Len(written) : written[i] = written[j] => i = j)
    /\ [][IsSome(child) =>
            /\ child' = child
            /\ spawned' = spawned
            /\ \A t \in Tasks : HealthStep(t) => Unwrap(ret'[t]).running]_vars

\* The worker has exited, a call has failed for it, and the handle is
\* still held with no error recorded and one spawn.
C18_Witness ==
    /\ ~alive
    /\ IsSome(child)
    /\ start_error = None
    /\ spawned = 1
    /\ pc[1] = "done"
    /\ cmd[1].kind = "rpc"
    /\ ~Unwrap(ret[1]).ok
    /\ my_id[1] = 2

\* A step in which task t's call() reads its line.
ReadStep(t) == pc[t] = "read" /\ pc'[t] = "done"

\* C19: a call reading while the worker's output holds more than one line
\* takes the first line alone and leaves the lines after it in the output,
\* for the following call.
C19_LaterLinesKept ==
    [][\A t \in Tasks :
          (ReadStep(t) /\ Len(stdout) > 1) =>
              /\ got'[t] = Some(Head(stdout))
              /\ stdout' = Tail(stdout)]_vars

\* The worker has taken the first request and written its reply after a
\* notification; the call has returned on the notification, and the reply
\* is nowhere: not in the output and read by no call.
C19_Witness ==
    /\ alive
    /\ written = <<1>>
    /\ stdin = <<>>
    /\ stdout = <<>>
    /\ pc[1] = "done"
    /\ got[1] = Some(Notice)
    /\ consumed = <<None>>

\* Whether text s begins with p.
StartsWith(s, p) == Len(s) >= Len(p) /\ SubSeq(s, 1, Len(p)) = p

\* The failure task t's call() returns in this step, worded as step k's.
FailsAs(t, k) ==
    /\ ~Unwrap(ret'[t]).ok
    /\ StartsWith(Unwrap(ret'[t]).err, CallErrorWording[k])

WithId(line, id) ==
    JsonLine(JObj([k \in DOMAIN line.v.f \cup {"id"} |->
                      IF k = "id" THEN JNum(id) ELSE line.v.f[k]]))

\* C22: a call that read a line that parses as a response returns what it
\* would return for the same line carrying the id of its own request,
\* whether the line carries that id, another one or none.
C22_IdNotCompared ==
    [][\A t \in Tasks :
          (ReadStep(t) /\ stdout # <<>> /\ Head(stdout).kind = "json"
             /\ ParseJsonRpcResponse(Head(stdout)).ok) =>
              /\ ParseJsonRpcResponse(WithId(Head(stdout), my_id[t])).ok
              /\ ret'[t] = Some(LineOutcome(WithId(Head(stdout), my_id[t])))]_vars

\* A call has succeeded on a line carrying the id after its own, or on a
\* line carrying no id.
C22_Witness ==
    /\ pc[1] = "done"
    /\ cmd[1].kind = "rpc"
    /\ got[1] \in { Some(JsonLine(Object(<< V2, <<"id", JNum(my_id[1] + 1)>>,
                                            <<"result", OkTrue>> >>))),
                    Some(JsonLine(Object(<< V2, <<"result", OkTrue>> >>))) }
    /\ ret[1] = Some(Ok(OkTrue))

\* The environment of the most recent discovery.
LastEnv == Unwrap(attempt)

\* The script below the first n components of the executable's directory.
ScriptAt(plat, e, n) ==
    PathStr(plat, SubSeq(Unwrap(Parent(Unwrap(e.exe))), 1, n) \o ScriptRel)

\* The depths at which an ancestor of the executable's directory (the
\* directory itself included) holds the script.
ScriptDepths(plat, e) ==
    { n \in 0..Len(Unwrap(Parent(Unwrap(e.exe)))) : ScriptAt(plat, e, n) \in e.files }

\* Whether the script is in the resource directory (macOS only) or beside
\* the executable.
InResources(plat, e) == plat = "macos" /\ ResourcesScript(plat) \in e.files
IsAdjacent(plat, e) == AdjacentScript(plat) \in e.files

SetMax(S) == CHOOSE n \in S : \A k \in S : k <= n
SetMin(S) == CHOOSE n \in S : \A k \in S : n <= k

\* C24: the script locator returns the resource-relative path when it
\* exists (on macOS), otherwise the path beside the executable when it
\* exists, otherwise the script under the nearest ancestor of the
\* executable's directory that holds it, and fails only when none of these
\* exists; a spawn refused by the system names the script so located, and a
\* failed search is the recorded reason.
C24_ScriptOrder ==
    IsSome(attempt) =>
        LET s == sidecar_script(platform, LastEnv)
            up == ScriptDepths(platform, LastEnv)
        IN  /\ InResources(platform, LastEnv) =>
                  s.ok /\ s.value = ResourcesScript(platform)
            /\ (~InResources(platform, LastEnv) /\ IsAdjacent(platform, LastEnv)) =>
                  s.ok /\ s.value = AdjacentScript(platform)
            /\ (~InResources(platform, LastEnv) /\ ~IsAdjacent(platform, LastEnv)
                  /\ up # {}) =>
                  s.ok /\ s.value = ScriptAt(platform, LastEnv, SetMax(up))
            /\ ~s.ok <=> (~InResources(platform, LastEnv) /\ up = {})
            /\ ~s.ok => (child = None /\ start_error = Some(s.err))
            /\ (s.ok /\ LastEnv.nodeInPath /\ LastEnv.spawn = "Other") =>
                  start_error = Some("Failed to spawn sidecar from " \o DebugPath(s.value)
                                     \o ": " \o LastEnv.spawnErr)

\* With the script under both the parent and the grandparent of the
\* executable's directory and at no packaged place, the refused spawn
\* named the parent's.
C24_Witness ==
    /\ platform = "linux"
    /\ IsSome(attempt)
    /\ LastEnv.files = {ParentScript("linux"), WorkspaceScript("linux")}
    /\ start_error = Some("Failed to spawn sidecar from "
                          \o "\"/w/src-tauri/target/sidecar/dist/index.cjs\""
                          \o ": Permission denied (os error 13)")

\* Every path whose existence the script locator tests in e.
TestedPaths(plat, e) ==
    (IF plat = "macos" THEN {ResourcesScript(plat)} ELSE {})
    \cup {AdjacentScript(plat)}
    \cup { ScriptAt(plat, e, n) : n \in 0..Len(Unwrap(Parent(Unwrap(e.exe)))) }

\* C25: when the script locator fails, every path whose existence was
\* tested, packaged candidate or ancestor candidate, appears in the
\* recorded reason.
C25_EveryTestedPathListed ==
    (IsSome(attempt) /\ ~sidecar_script(platform, LastEnv).ok) =>
        /\ IsSome(start_error)
        /\ \A p \in TestedPaths(platform, LastEnv) :
              Contains(Unwrap(start_error), DebugPath(p))

\* The locator failed and the recorded reason lists the packaged
\* candidates.
C25_Witness ==
    /\ IsSome(attempt)
    /\ ~sidecar_script(platform, LastEnv).ok
    /\ IsSome(start_error)
    /\ Contains(Unwrap(start_error), "Checked paths: " \o DebugPath(AdjacentScript(platform)))

\* C27: a start() that finds the script nowhere does not look for the
\* runtime, whether or not one is there: it records the script-not-found
\* reason, and the health query then reports SIDECAR_SCRIPT_NOT_FOUND.
C27_ScriptBeforeRuntime ==
    /\ [][\A t \in Tasks :
            (StartStep(t) /\ ~IsSome(child)
               /\ ~InResources(platform, Unwrap(attempt'))
               /\ ScriptDepths(platform, Unwrap(attempt')) = {}) =>
                /\ ~Unwrap(started'[t]).lookup
                /\ ~Unwrap(started'[t]).ok
                /\ start_error' =
                      Some(ScriptNotFoundMsg(paths_to_check(platform, ExeDir(platform))))
                /\ HealthReport(child', start_error').errorCode
                      = Some("SIDECAR_SCRIPT_NOT_FOUND")]_vars
    /\ [](\A t \in Tasks :
            (pc[t] = "done" /\ cmd[t].kind = "health" /\ IsSome(attempt)
               /\ ~IsSome(child)
               /\ ~InResources(platform, LastEnv)
               /\ ScriptDepths(platform, LastEnv) = {}) =>
                Unwrap(ret[t]).errorCode = Some("SIDECAR_SCRIPT_NOT_FOUND"))

\* The health query has answered after a start() that met neither script
\* nor runtime.
C27_Witness ==
    /\ pc[1] = "done" /\ cmd[1].kind = "health"
    /\ IsSome(attempt)
    /\ LastEnv = BaseEnv(platform)
    /\ ~Unwrap(started[1]).lookup
    /\ Unwrap(ret[1]).errorCode = Some("SIDECAR_SCRIPT_NOT_FOUND")

\* The executables below a version manager's base directory, in the order
\* read_dir enumerates the version directories; none when the directory is
\* missing or cannot be listed.
ListedBins(plat, e, base, rel) ==
    IF base \in e.files /\ base \in DOMAIN e.listing
    THEN [i \in 1..Len(e.listing[base]) |->
            StrJoin(plat, StrJoin(plat, base, e.listing[base][i]), rel)]
    ELSE <<>>

\* The candidates of the second and third stage, in the order tested: the
\* standard paths, then (the home directory known) nvm's and fnm's version
\* directories and the shims of volta, asdf and linuxbrew.
RuntimeCandidates(plat, e) ==
    CommonPaths(plat, e)
    \o (IF e.home = None THEN <<>>
        ELSE IF plat = "windows"
        THEN (IF "APPDATA" \in DOMAIN e.vars
              THEN ListedBins(plat, e, e.vars["APPDATA"] \o "\\nvm", "node.exe")
              ELSE <<>>)
             \o (IF "LOCALAPPDATA" \in DOMAIN e.vars
                 THEN ListedBins(plat, e, e.vars["LOCALAPPDATA"] \o "\\fnm\\node-versions",
                                 "installation\\node.exe")
                 ELSE <<>>)
             \o <<Unwrap(e.home) \o "\\.volta\\bin\\node.exe">>
        ELSE ListedBins(plat, e, Unwrap(e.home) \o "/.nvm/versions/node", "bin/node")
             \o ListedBins(plat, e, Unwrap(e.home) \o "/.local/share/fnm/node-versions",
                           "installation/bin/node")
             \o <<Unwrap(e.home) \o "/.volta/bin/node", Unwrap(e.home) \o "/.asdf/shims/node">>
             \o (IF plat = "linux" THEN <<Unwrap(e.home) \o "/.linuxbrew/bin/node">>
                 ELSE <<>>))

\* The positions of the candidates that exist.
RuntimeHits(plat, e) ==
    { i \in 1..Len(RuntimeCandidates(plat, e)) : RuntimeCandidates(plat, e)[i] \in e.files }

C26_HandleOrReason ==
    /\ (holder = None /\ (spawned > 0 \/ IsSome(attempt))) =>
          (IsSome(child) # IsSome(start_error))
    /\ \A t \in Tasks :
          (pc[t] = "done" /\ started[t] # None) =>
              ret[t] # Some(Err("Sidecar not started"))

\* A command's call() has returned the marker with the reason of the
\* failed start(), the guard free again.
C26_Witness ==
    \E t \in Tasks :
        /\ pc[t] = "done" /\ cmd[t].kind = "rpc"
        /\ started[t] # None
        /\ holder = None /\ child = None /\ IsSome(start_error)
        /\ ret[t] = Some(Err("Sidecar not started: " \o Unwrap(start_error)))

\* A step that starts, runs or completes anything of task u's command:
\* taking the guard, start(), a step of call(), the health query.
Progress(u) ==
    /\ pc[u] \in {"gs_lock", "gs_start", "cmd_lock"} \cup InCall
    /\ pc'[u] # pc[u]

C28_CallersAreServed ==
    \A t \in Tasks :
        /\ (pc[t] = "gs_lock") ~> (pc[t] = "gs_start" /\ holder = Some(t))
        /\ (pc[t] = "cmd_lock") ~> (pc[t] = "cmd" /\ holder = Some(t))
        /\ (pc[t] \in InCall /\ cmd[t].kind = "rpc") ~> (pc[t] = "done" /\ IsSome(ret[t]))

\* Both tasks' calls have returned a result, the second request written
\* after the first.
C28_Witness ==
    /\ \A t \in Tasks : pc[t] = "done" /\ cmd[t].kind = "rpc" /\ IsSome(ret[t])
                         /\ Unwrap(ret[t]).ok
    /\ Len(consumed) = NumTasks
    /\ request_id = NumTasks
====
